---- MODULE Spec2Model ----
(***************************************************************************)
(* TimeTamer scheduling core: day-context resolution, rule evaluation,     *)
(* placement validation, slot suggestion and batch auto-scheduling.        *)
(*                                                                         *)
(* Conventions of the model                                                *)
(*  - a datetime is the number of minutes since 00:00 of day 0; a calendar *)
(*    date ("%Y-%m-%d") is the day ordinal t \div 1440;                      *)
(*  - a time-of-day string is the sequence of its characters, a digit d    *)
(*    as the number d and ':' as Colon (':' sorts after every digit), so   *)
(*    that Python's string comparison is the lexicographic order StrLe;    *)
(*  - a score is kept in tenths (0.5 is 5, 1.0 is 10);                     *)
(*  - a Python value met by a rule condition is a tagged record (PyBool,   *)
(*    PyInt, PyStr, PyList, PyNone).                                       *)
(***************************************************************************)
EXTENDS Integers, Sequences, FiniteSets, TLC

VARIABLES
    tasks,        \* tasks table: task id -> row (or NoTask)
    overrides,    \* user_calendar_days table: date -> row (or NoOverride)
    settings,     \* user_day_settings table, in query order
    rules,        \* scheduling_rules table
    op,           \* the engine operation that returned last ("idle" before any)
    call,         \* the arguments of that operation
    vres,         \* ValidationResult returned by validate_placement
    sres,         \* list returned by suggest_slots
    batch,        \* auto_schedule_tasks in progress, and its returned summary
    probe,        \* the arguments of one function called on its own, and what it returned
    sessions      \* concurrent auto_schedule_tasks calls: caller -> its session and locals

vars == <<tasks, overrides, settings, rules, op, call, vres, sres, batch, probe, sessions>>

-----------------------------------------------------------------------------
(* Bounds of the model *)

\* dates 0..MaxDay exist in requests and in the calendar tables
MaxDay == 1
\* the slot scorer is called for tasks with deadlines on the days 0..MaxDeadlineDay
MaxDeadlineDay == 5
\* the recurrence matcher is probed on the dates -MaxProbeDay..MaxProbeDay and on
\* a few dates of other months, with intervals 1..MaxInterval
MaxProbeDay == 8
MaxInterval == 3
\* at most this many rules of the catalogue are stored for the user
MaxRules == 2

-----------------------------------------------------------------------------
(* Time and strings *)

MinutesPerDay == 1440
Colon == 10

DayOf(t) == t \div MinutesPerDay
MinOf(t) == t % MinutesPerDay
At(day, hh, mm) == day * MinutesPerDay + hh * 60 + mm

\* datetime.strftime("%H:%M"): zero-padded hour and minute, the date dropped
strftime_HM(t) ==
    LET h == MinOf(t) \div 60
        m == MinOf(t) % 60
    IN  <<h \div 10, h % 10, Colon, m \div 10, m % 10>>

\* datetime.strptime(date + " " + s, "%Y-%m-%d %H:%M"): the hour may have one digit
strptime_HM(day, s) ==
    IF Len(s) = 5
    THEN At(day, s[1] * 10 + s[2], s[4] * 10 + s[5])
    ELSE At(day, s[1], s[3] * 10 + s[4])

\* Python str comparison a < b
StrLt(a, b) ==
    \/ \E i \in 1..Len(a) :
          /\ i <= Len(b)
          /\ a[i] < b[i]
          /\ \A j \in 1..(i - 1) : a[j] = b[j]
    \/ /\ Len(a) < Len(b)
       /\ \A j \in 1..Len(a) : a[j] = b[j]

StrLe(a, b) == a = b \/ StrLt(a, b)

\* The pattern ^([01]?[0-9]|2[0-3]):[0-5][0-9]$ of a slot's start_time and end_time
TimePatternOk(s) ==
    \/ /\ Len(s) = 5
       /\ s[3] = Colon
       /\ \A i \in {1, 2, 4, 5} : s[i] \in 0..9
       /\ s[1] \in {0, 1} \/ (s[1] = 2 /\ s[2] \in 0..3)
       /\ s[4] \in 0..5
    \/ /\ Len(s) = 4
       /\ s[2] = Colon
       /\ \A i \in {1, 3, 4} : s[i] \in 0..9
       /\ s[3] \in 0..5

\* "HH:MM" literals used by the catalogues below
T(hh, mm) == <<hh \div 10, hh % 10, Colon, mm \div 10, mm % 10>>
\* "H:MM", the unpadded form the pattern also admits
U(h, mm) == <<h, Colon, mm \div 10, mm % 10>>

-----------------------------------------------------------------------------
(* Enumerations *)

WorkEnvironmentEnum == {"home", "office", "outdoors", "hybrid"}
PriorityEnum == {"low", "medium", "high", "urgent"}
FocusLevels == {"high", "medium", "low"}
AvailabilityStatuses == {"available", "busy", "tentative"}
ActionEnum == {"allow", "block", "warn", "suggest_alternative"}

FocusSlot(s, e, level) == [start_time |-> s, end_time |-> e, focus_level |-> level]
AvailabilitySlot(s, e, st) == [start_time |-> s, end_time |-> e, status |-> st]

-----------------------------------------------------------------------------
(* Day Context Resolver (services/day_context.py) *)

\* Day 0 is 2025-03-01, a Saturday; 2024-01-01 is day -425 and 2025-12-31 is
\* day 305. MonthEnds[i] is the number of days of the first i months of 2024-25.
MonthEnds ==
    <<31, 60, 91, 121, 152, 182, 213, 244, 274, 305, 335, 366,
      397, 425, 456, 486, 517, 547, 578, 609, 639, 670, 700, 731>>

\* datetime.weekday(): 0 = Monday .. 6 = Sunday
weekday(d) == (d + 5) % 7

\* year * 12 + month of a date, counted from January 2024
MonthIndex(d) == Cardinality({i \in 1..Len(MonthEnds) : MonthEnds[i] <= d + 425})

NoDate == -1000

RecurrencePattern(type, dows, start, end, interval) ==
    [pattern_type |-> type, days_of_week |-> dows, start_date |-> start,
     end_date |-> end, interval |-> interval]

\* RecurrencePattern(**setting.recurrence_pattern): the schema's own checks
PatternParses(p) ==
    /\ p.pattern_type \in {"daily", "weekly", "monthly", "custom"}
    /\ p.interval >= 1
    /\ \A d \in p.days_of_week : d \in 0..6

\* A matcher whose weekly patterns recur every week whatever the interval
is_date_in_pattern_every_week(date, pattern) ==
    IF date < pattern.start_date THEN FALSE
    ELSE IF pattern.end_date # NoDate /\ date > pattern.end_date THEN FALSE
    ELSE IF pattern.pattern_type = "daily"
         THEN (date - pattern.start_date) % pattern.interval = 0
    ELSE IF pattern.pattern_type = "weekly"
         THEN IF pattern.days_of_week = {} THEN FALSE
              ELSE weekday(date) \in pattern.days_of_week
    ELSE IF pattern.pattern_type = "monthly"
         THEN (MonthIndex(date) - MonthIndex(pattern.start_date)) % pattern.interval = 0
    ELSE IF pattern.pattern_type = "custom"
         THEN IF pattern.days_of_week = {} THEN FALSE
              ELSE weekday(date) \in pattern.days_of_week
    ELSE FALSE

\* target_date and start_date are compared as dates; an absent end_date is NoDate
is_date_in_pattern(date, pattern) ==
    IF date < pattern.start_date THEN FALSE
    ELSE IF pattern.end_date # NoDate /\ date > pattern.end_date THEN FALSE
    ELSE IF pattern.pattern_type = "daily"
         THEN (date - pattern.start_date) % pattern.interval = 0
    ELSE IF pattern.pattern_type = "weekly"
         THEN IF pattern.days_of_week = {} THEN FALSE
              ELSE IF weekday(date) \notin pattern.days_of_week THEN FALSE
              ELSE ((date - pattern.start_date) \div 7) % pattern.interval = 0
    ELSE IF pattern.pattern_type = "monthly"
         THEN (MonthIndex(date) - MonthIndex(pattern.start_date)) % pattern.interval = 0
    ELSE IF pattern.pattern_type = "custom"
         THEN IF pattern.days_of_week = {} THEN FALSE
              ELSE weekday(date) \in pattern.days_of_week
    ELSE FALSE

\* System defaults (schemas/calendar.py, BaseDayContext)
BaseDayContext ==
    [work_environment |-> "home",
     focus_slots |-> <<FocusSlot(T(9, 0), T(11, 0), "high"),
                       FocusSlot(T(14, 0), T(16, 0), "medium")>>,
     availability_slots |-> <<AvailabilitySlot(T(9, 0), T(17, 0), "available")>>]

\* The settings that apply to a date, as the dict setting_type -> value; a
\* later row of the query overwrites an earlier one of the same type, and a
\* row whose pattern does not parse is skipped.
RECURSIVE SettingsFold(_, _, _, _)
SettingsFold(rows, i, date, acc) ==
    IF i > Len(rows) THEN acc
    ELSE LET row == rows[i]
             hit == /\ row.is_active
                    /\ PatternParses(row.recurrence_pattern)
                    /\ is_date_in_pattern(date, row.recurrence_pattern)
         IN  SettingsFold(rows, i + 1, date,
                IF hit THEN [acc EXCEPT ![row.setting_type] =
                                [present |-> TRUE, value |-> row.value]]
                       ELSE acc)

NoSetting == [present |-> FALSE, value |-> [wrapped |-> FALSE, payload |-> <<>>]]

get_user_settings_for_date(date, rows) ==
    SettingsFold(rows, 1, date,
        [k \in {"work_environment", "focus_slots", "availability_slots"} |-> NoSetting])

\* FocusSlot / AvailabilitySlot validation of one stored slot
FocusSlotValid(s) ==
    /\ TimePatternOk(s.start_time)
    /\ TimePatternOk(s.end_time)
    /\ s.focus_level \in FocusLevels
    /\ ~StrLe(s.end_time, s.start_time)

AvailabilitySlotValid(s) ==
    /\ TimePatternOk(s.start_time)
    /\ TimePatternOk(s.end_time)
    /\ s.status \in AvailabilityStatuses
    /\ ~StrLe(s.end_time, s.start_time)

\* A merge in which a matching setting keeps the provenance over an override
merge_day_contexts_settings_win(base, user_settings, daily_override, date) ==
    LET us(k) == user_settings[k]
        anyUs == \E k \in DOMAIN user_settings : user_settings[k].present
        ov == daily_override.present
        env == IF ov THEN [wrapped |-> TRUE, payload |-> daily_override.work_environment]
               ELSE IF us("work_environment").present THEN us("work_environment").value
               ELSE [wrapped |-> TRUE, payload |-> base.work_environment]
        fs == IF ov THEN [wrapped |-> TRUE, payload |-> daily_override.focus_slots]
              ELSE IF us("focus_slots").present THEN us("focus_slots").value
              ELSE [wrapped |-> TRUE, payload |-> base.focus_slots]
        av == IF ov THEN [wrapped |-> TRUE, payload |-> daily_override.availability_slots]
              ELSE IF us("availability_slots").present THEN us("availability_slots").value
              ELSE [wrapped |-> TRUE, payload |-> base.availability_slots]
        valid == /\ env.wrapped /\ fs.wrapped /\ av.wrapped
                 /\ env.payload \in WorkEnvironmentEnum
                 /\ \A i \in 1..Len(fs.payload) : FocusSlotValid(fs.payload[i])
                 /\ \A i \in 1..Len(av.payload) : AvailabilitySlotValid(av.payload[i])
    IN  [ok |-> valid,
         date |-> date,
         work_environment |-> IF env.wrapped THEN env.payload ELSE "dict",
         focus_slots |-> IF fs.wrapped THEN fs.payload ELSE <<>>,
         availability_slots |-> IF av.wrapped THEN av.payload ELSE <<>>,
         source |-> IF anyUs THEN "user_settings"
                    ELSE IF ov THEN "daily_override" ELSE "default"]

\* A merge that appends the earlier layer's slots to those of a setting
merge_day_contexts_appending(base, user_settings, daily_override, date) ==
    LET us(k) == user_settings[k]
        anyUs == \E k \in DOMAIN user_settings : user_settings[k].present
        ov == daily_override.present
        env == IF ov THEN [wrapped |-> TRUE, payload |-> daily_override.work_environment]
               ELSE IF us("work_environment").present THEN us("work_environment").value
               ELSE [wrapped |-> TRUE, payload |-> base.work_environment]
        fs == IF ov THEN [wrapped |-> TRUE, payload |-> daily_override.focus_slots]
              ELSE IF us("focus_slots").present
                   THEN [us("focus_slots").value EXCEPT !.payload = @ \o base.focus_slots]
              ELSE [wrapped |-> TRUE, payload |-> base.focus_slots]
        av == IF ov THEN [wrapped |-> TRUE, payload |-> daily_override.availability_slots]
              ELSE IF us("availability_slots").present
                   THEN [us("availability_slots").value EXCEPT
                            !.payload = @ \o base.availability_slots]
              ELSE [wrapped |-> TRUE, payload |-> base.availability_slots]
        valid == /\ env.wrapped /\ fs.wrapped /\ av.wrapped
                 /\ env.payload \in WorkEnvironmentEnum
                 /\ \A i \in 1..Len(fs.payload) : FocusSlotValid(fs.payload[i])
                 /\ \A i \in 1..Len(av.payload) : AvailabilitySlotValid(av.payload[i])
    IN  [ok |-> valid,
         date |-> date,
         work_environment |-> IF env.wrapped THEN env.payload ELSE "dict",
         focus_slots |-> IF fs.wrapped THEN fs.payload ELSE <<>>,
         availability_slots |-> IF av.wrapped THEN av.payload ELSE <<>>,
         source |-> IF ov THEN "daily_override"
                    ELSE IF anyUs THEN "user_settings" ELSE "default"]

\* merge_day_contexts: each later layer replaces the field of the earlier one.
\* A setting value that is not {"<type>": ...} is taken as it is, a dict.
merge_day_contexts(base, user_settings, daily_override, date) ==
    LET us(k) == user_settings[k]
        e1 == IF us("work_environment").present
              THEN us("work_environment").value
              ELSE [wrapped |-> TRUE, payload |-> base.work_environment]
        f1 == IF us("focus_slots").present
              THEN us("focus_slots").value
              ELSE [wrapped |-> TRUE, payload |-> base.focus_slots]
        a1 == IF us("availability_slots").present
              THEN us("availability_slots").value
              ELSE [wrapped |-> TRUE, payload |-> base.availability_slots]
        anyUs == \E k \in DOMAIN user_settings : user_settings[k].present
        ov == daily_override.present
        env == IF ov THEN [wrapped |-> TRUE, payload |-> daily_override.work_environment] ELSE e1
        fs == IF ov THEN [wrapped |-> TRUE, payload |-> daily_override.focus_slots] ELSE f1
        av == IF ov THEN [wrapped |-> TRUE, payload |-> daily_override.availability_slots] ELSE a1
        \* CalendarDayResponse(**merged) validates every field
        valid == /\ env.wrapped /\ fs.wrapped /\ av.wrapped
                 /\ env.payload \in WorkEnvironmentEnum
                 /\ \A i \in 1..Len(fs.payload) : FocusSlotValid(fs.payload[i])
                 /\ \A i \in 1..Len(av.payload) : AvailabilitySlotValid(av.payload[i])
    IN  [ok |-> valid,
         date |-> date,
         work_environment |-> IF env.wrapped THEN env.payload ELSE "dict",
         focus_slots |-> IF fs.wrapped THEN fs.payload ELSE <<>>,
         availability_slots |-> IF av.wrapped THEN av.payload ELSE <<>>,
         source |-> IF ov THEN "daily_override"
                    ELSE IF anyUs THEN "user_settings" ELSE "default"]

\* generate_day_contexts_for_range(user, d, d)[0]: the one context of a date;
\* ok = FALSE stands for the ValidationError the merge raises.
HasOverride(date, ovs) == date \in DOMAIN ovs /\ ovs[date].present

DayContext(date, ovs, rows) ==
    merge_day_contexts(BaseDayContext,
                       get_user_settings_for_date(date, rows),
                       IF HasOverride(date, ovs) THEN ovs[date]
                       ELSE [present |-> FALSE],
                       date)

-----------------------------------------------------------------------------
(* Rule Evaluator (services/scheduling_engine.py) *)

PyBool(b) == [t |-> "bool", n |-> IF b THEN 1 ELSE 0, s |-> "", l |-> {}]
PyInt(n)  == [t |-> "int", n |-> n, s |-> "", l |-> {}]
PyStr(s)  == [t |-> "str", n |-> 0, s |-> s, l |-> {}]
PyList(l) == [t |-> "list", n |-> 0, s |-> "", l |-> l]
PyNone    == [t |-> "none", n |-> 0, s |-> "", l |-> {}]

IsNumber(v) == v.t \in {"bool", "int"}

\* The strings rule data and task fields hold, in Python's str order
StrOrder == <<"high", "home", "hybrid", "low", "medium", "office", "outdoors",
              "personal", "urgent", "work">>
StrRank(s) == CHOOSE i \in 1..Len(StrOrder) : StrOrder[i] = s

\* a == b
PyEq(a, b) ==
    IF IsNumber(a) /\ IsNumber(b) THEN a.n = b.n
    ELSE IF a.t = "str" /\ b.t = "str" THEN a.s = b.s
    ELSE IF a.t = "list" /\ b.t = "list" THEN a.l = b.l
    ELSE a.t = "none" /\ b.t = "none"

\* a > b and a < b raise TypeError unless both are numbers or both are strings
Orderable(a, b) ==
    \/ IsNumber(a) /\ IsNumber(b)
    \/ a.t = "str" /\ b.t = "str"

PyGt(a, b) ==
    IF IsNumber(a) THEN a.n > b.n ELSE StrRank(a.s) > StrRank(b.s)

Tri(b) == IF b THEN "true" ELSE "false"
\* _apply_operator with an unknown operator failing the condition
apply_operator_unknown_fails(actual_value, operator, expected_value) ==
    IF operator = "equals" THEN Tri(PyEq(actual_value, expected_value))
    ELSE IF operator = "not_equals" THEN Tri(~PyEq(actual_value, expected_value))
    ELSE IF operator = "greater_than"
         THEN IF Orderable(actual_value, expected_value)
              THEN Tri(PyGt(actual_value, expected_value)) ELSE "raise"
    ELSE IF operator = "less_than"
         THEN IF Orderable(actual_value, expected_value)
              THEN Tri(PyGt(expected_value, actual_value)) ELSE "raise"
    ELSE IF operator = "in"
         THEN IF expected_value.t = "list"
              THEN Tri(actual_value.t = "str" /\ actual_value.s \in expected_value.l)
              ELSE "false"
    ELSE IF operator = "not_in"
         THEN IF expected_value.t = "list"
              THEN Tri(~(actual_value.t = "str" /\ actual_value.s \in expected_value.l))
              ELSE "true"
    ELSE "false"

\* _apply_operator: "true", "false", or "raise" for the TypeError of an
\* ordered comparison between values that have no order
apply_operator(actual_value, operator, expected_value) ==
    IF operator = "equals" THEN Tri(PyEq(actual_value, expected_value))
    ELSE IF operator = "not_equals" THEN Tri(~PyEq(actual_value, expected_value))
    ELSE IF operator = "greater_than"
         THEN IF Orderable(actual_value, expected_value)
              THEN Tri(PyGt(actual_value, expected_value)) ELSE "raise"
    ELSE IF operator = "less_than"
         THEN IF Orderable(actual_value, expected_value)
              THEN Tri(PyGt(expected_value, actual_value)) ELSE "raise"
    ELSE IF operator = "in"
         THEN IF expected_value.t = "list"
              THEN Tri(actual_value.t = "str" /\ actual_value.s \in expected_value.l)
              ELSE "false"
    ELSE IF operator = "not_in"
         THEN IF expected_value.t = "list"
              THEN Tri(~(actual_value.t = "str" /\ actual_value.s \in expected_value.l))
              ELSE "true"
    ELSE "true"

\* _is_within_focus_time: the span's HH:MM strings lie inside one focus slot
is_within_focus_time(start_time, end_time, calendar_day) ==
    LET start_time_str == strftime_HM(start_time)
        end_time_str == strftime_HM(end_time)
        slots == calendar_day.focus_slots
    IN  \E i \in 1..Len(slots) :
            /\ StrLe(slots[i].start_time, start_time_str)
            /\ StrLe(end_time_str, slots[i].end_time)

\* _is_within_availability: no slots at all means always available
is_within_availability(start_time, end_time, calendar_day) ==
    LET start_time_str == strftime_HM(start_time)
        end_time_str == strftime_HM(end_time)
        slots == calendar_day.availability_slots
    IN  IF Len(slots) = 0 THEN TRUE
        ELSE \E i \in 1..Len(slots) :
                /\ slots[i].status = "available"
                /\ StrLe(slots[i].start_time, start_time_str)
                /\ StrLe(end_time_str, slots[i].end_time)

NoLevel == "None"

\* The loop from slot i on, taking the first overlapping slot whether or not
\* it holds the start
RECURSIVE FocusLevelLoop_first_overlap(_, _, _, _, _)
FocusLevelLoop_first_overlap(slots, i, start_time_str, end_time_str, chosen_level) ==
    IF i > Len(slots) THEN chosen_level
    ELSE IF /\ StrLt(start_time_str, slots[i].end_time)
            /\ StrLt(slots[i].start_time, end_time_str)
    THEN slots[i].focus_level
    ELSE FocusLevelLoop_first_overlap(slots, i + 1, start_time_str, end_time_str, chosen_level)

\* The loop of _get_focus_level_for_timespan from slot i on
RECURSIVE FocusLevelLoop(_, _, _, _, _)
FocusLevelLoop(slots, i, start_time_str, end_time_str, chosen_level) ==
    IF i > Len(slots) THEN chosen_level
    ELSE LET slot == slots[i]
             overlaps == /\ StrLt(start_time_str, slot.end_time)
                         /\ StrLt(slot.start_time, end_time_str)
         IN  IF ~overlaps
             THEN FocusLevelLoop(slots, i + 1, start_time_str, end_time_str, chosen_level)
             ELSE IF /\ StrLe(slot.start_time, start_time_str)
                     /\ StrLe(start_time_str, slot.end_time)
             THEN slot.focus_level
             ELSE FocusLevelLoop(slots, i + 1, start_time_str, end_time_str,
                     IF chosen_level = NoLevel THEN slot.focus_level ELSE chosen_level)

get_focus_level_for_timespan(start_time, end_time, calendar_day) ==
    FocusLevelLoop(calendar_day.focus_slots, 1,
                   strftime_HM(start_time), strftime_HM(end_time), NoLevel)

LevelValue(level) == IF level = NoLevel THEN PyNone ELSE PyStr(level)

NoPriority == "none"
NoCategory == "none"

evaluate_task_property_condition(task, field, operator, value) ==
    IF field = "priority"
    THEN apply_operator(IF task.priority = NoPriority THEN PyNone
                        ELSE PyStr(task.priority), operator, value)
    ELSE IF field = "requires_focus"
    THEN apply_operator(PyBool(task.requires_focus), operator, value)
    ELSE IF field = "estimated_duration_minutes"
    THEN apply_operator(PyInt(task.estimated_duration_minutes), operator, value)
    ELSE IF field = "category_id"
    THEN apply_operator(IF task.category_id = NoCategory THEN PyNone
                        ELSE PyStr(task.category_id), operator, value)
    ELSE "true"

evaluate_calendar_day_condition(calendar_day, field, operator, value) ==
    IF field = "work_environment"
    THEN apply_operator(PyStr(calendar_day.work_environment), operator, value)
    ELSE IF field = "has_focus_slots"
    THEN apply_operator(PyBool(Len(calendar_day.focus_slots) > 0), operator, value)
    ELSE "true"

evaluate_time_slot_condition(calendar_day, start_time, end_time, field, operator, value) ==
    IF field = "is_focus_time"
    THEN IF value.t = "bool"
         THEN apply_operator(
                 PyBool(is_within_focus_time(start_time, end_time, calendar_day)),
                 operator, value)
         ELSE IF value.t \in {"str", "list"}
         THEN apply_operator(
                 LevelValue(get_focus_level_for_timespan(start_time, end_time, calendar_day)),
                 operator, value)
         ELSE "true"
    ELSE IF field = "is_available"
    THEN apply_operator(
            PyBool(is_within_availability(start_time, end_time, calendar_day)),
            operator, value)
    ELSE IF field = "hour_of_day"
    THEN apply_operator(PyInt(MinOf(start_time) \div 60), operator, value)
    ELSE "true"

Condition(source, field, operator, value) ==
    [source |-> source, field |-> field, operator |-> operator, value |-> value]

evaluate_condition(c, task, calendar_day, start_time, end_time) ==
    IF c.source = "task_property"
    THEN evaluate_task_property_condition(task, c.field, c.operator, c.value)
    ELSE IF c.source = "calendar_day"
    THEN evaluate_calendar_day_condition(calendar_day, c.field, c.operator, c.value)
    ELSE IF c.source = "time_slot"
    THEN evaluate_time_slot_condition(calendar_day, start_time, end_time,
                                      c.field, c.operator, c.value)
    ELSE "true"

\* The loop of _evaluate_rule_conditions, returning True at the first
\* condition that holds
RECURSIVE ConditionsLoop_any(_, _, _, _, _, _)
ConditionsLoop_any(conds, i, task, calendar_day, start_time, end_time) ==
    IF i > Len(conds) THEN "false"
    ELSE LET r == evaluate_condition(conds[i], task, calendar_day, start_time, end_time)
         IN  IF r = "false"
             THEN ConditionsLoop_any(conds, i + 1, task, calendar_day, start_time, end_time)
             ELSE r

\* The loop of _evaluate_rule_conditions from condition i on: the first false
\* condition returns False, a raising one aborts
RECURSIVE ConditionsLoop(_, _, _, _, _, _)
ConditionsLoop(conds, i, task, calendar_day, start_time, end_time) ==
    IF i > Len(conds) THEN "true"
    ELSE LET r == evaluate_condition(conds[i], task, calendar_day, start_time, end_time)
         IN  IF r = "true"
             THEN ConditionsLoop(conds, i + 1, task, calendar_day, start_time, end_time)
             ELSE r

evaluate_rule_conditions(rule, task, calendar_day, start_time, end_time) ==
    IF Len(rule.conditions) = 0 THEN "false"
    ELSE ConditionsLoop(rule.conditions, 1, task, calendar_day, start_time, end_time)

\* The rules query: the user's active rules, ordered by priority_order
RECURSIVE SortedByOrder(_)
SortedByOrder(S) ==
    IF S = {} THEN <<>>
    ELSE LET r == CHOOSE x \in S : \A y \in S : x.priority_order <= y.priority_order
         IN  <<r>> \o SortedByOrder(S \ {r})

ActiveRules(table) == SortedByOrder({r \in table : r.is_active})

\* The RuleEvaluationResult list of the rules rs with condition outcomes out;
\* raised = TRUE when evaluating some rule raised (the list is then never
\* returned)
RuleEvaluations(rs, out) ==
    [raised |-> \E i \in 1..Len(rs) : out[i] = "raise",
     evaluations |-> [i \in 1..Len(rs) |->
        [rule_name |-> rs[i].name, action |-> rs[i].action,
         triggered |-> out[i] = "true"]]]

\* "for rule in rules": each rule's conditions evaluated in query order
EvaluateEach(rs, task, calendar_day, start_time, end_time) ==
    RuleEvaluations(rs,
        [i \in 1..Len(rs) |->
            evaluate_rule_conditions(rs[i], task, calendar_day, start_time, end_time)])

\* _evaluate_rules: one RuleEvaluationResult per active rule
evaluate_rules(task, calendar_day, start_time, end_time, table) ==
    EvaluateEach(ActiveRules(table), task, calendar_day, start_time, end_time)

-----------------------------------------------------------------------------
(* Slot Suggester (services/scheduling_engine.py) *)

MaxSuggestions == 5
SuggestWindowDays == 7
NoDeadline == -1000000

Min(a, b) == IF a <= b THEN a ELSE b

\* A scorer that returns the sum of the bonuses without the cap
calculate_slot_score_uncapped(task, calendar_day, start_time, end_time) ==
    LET focus == IF /\ task.requires_focus
                    /\ is_within_focus_time(start_time, end_time, calendar_day)
                 THEN 3 ELSE 0
        env == IF /\ task.fitting_environments # {}
                  /\ calendar_day.work_environment \in task.fitting_environments
               THEN 2 ELSE 0
        prio == IF task.priority = "urgent" THEN 2
                ELSE IF task.priority = "high" THEN 1 ELSE 0
        days_until_deadline == (task.deadline - start_time) \div MinutesPerDay
        dl == IF task.deadline = NoDeadline THEN 0
              ELSE IF days_until_deadline <= 1 THEN 2
              ELSE IF days_until_deadline <= 3 THEN 1 ELSE 0
    IN  5 + focus + env + prio + dl

\* _calculate_slot_score, in tenths; end_time is the end of the candidate window
calculate_slot_score(task, calendar_day, start_time, end_time) ==
    LET focus == IF /\ task.requires_focus
                    /\ is_within_focus_time(start_time, end_time, calendar_day)
                 THEN 3 ELSE 0
        env == IF /\ task.fitting_environments # {}
                  /\ calendar_day.work_environment \in task.fitting_environments
               THEN 2 ELSE 0
        prio == IF task.priority = "urgent" THEN 2
                ELSE IF task.priority = "high" THEN 1 ELSE 0
        days_until_deadline == (task.deadline - start_time) \div MinutesPerDay
        dl == IF task.deadline = NoDeadline THEN 0
              ELSE IF days_until_deadline <= 1 THEN 2
              ELSE IF days_until_deadline <= 3 THEN 1 ELSE 0
    IN  Min(5 + focus + env + prio + dl, 10)

SuggestionSlot(start, end, score, kind, slot_start, slot_end, day_id) ==
    [start_time |-> start, end_time |-> end, score |-> score,
     reason |-> [kind |-> kind, slot_start |-> slot_start, slot_end |-> slot_end],
     calendar_day_id |-> day_id]

\* One candidate window [slot_start, slot_end) of a date: a suggestion at the
\* front of the window when the window is long enough, else nothing
Candidate(task, calendar_day, day, kind, slot_start, slot_end, day_id) ==
    LET start_time == strptime_HM(day, slot_start)
        end_time == strptime_HM(day, slot_end)
        task_duration == task.estimated_duration_minutes
    IN  IF end_time - start_time >= task_duration
        THEN <<SuggestionSlot(start_time, start_time + task_duration,
                   calculate_slot_score(task, calendar_day, start_time, end_time),
                   kind, slot_start, slot_end, day_id)>>
        ELSE <<>>

RECURSIVE Flatten(_)
Flatten(ss) == IF Len(ss) = 0 THEN <<>> ELSE Head(ss) \o Flatten(Tail(ss))

\* _generate_day_suggestions; date is a datetime, only its day is used
generate_day_suggestions(task, calendar_day, date, has_override) ==
    LET day == DayOf(date)
        \* str(calendar_day.calendar_day_id): "None" when no override row exists
        day_id == IF has_override THEN "row" ELSE "None"
        fs == calendar_day.focus_slots
        av == calendar_day.availability_slots
        fromFocus ==
            IF Len(fs) > 0 /\ task.requires_focus
            THEN Flatten([i \in 1..Len(fs) |->
                    Candidate(task, calendar_day, day, "focus",
                              fs[i].start_time, fs[i].end_time, day_id)])
            ELSE <<>>
        fromAvail ==
            IF Len(av) > 0
            THEN Flatten([i \in 1..Len(av) |->
                    IF av[i].status = "available"
                    THEN Candidate(task, calendar_day, day, "available",
                                   av[i].start_time, av[i].end_time, day_id)
                    ELSE <<>>])
            ELSE Candidate(task, calendar_day, day, "default", T(9, 0), T(17, 0), "null")
    IN  IF /\ task.fitting_environments # {}
           /\ calendar_day.work_environment \notin task.fitting_environments
        THEN <<>>
        ELSE fromFocus \o fromAvail

\* list.sort(key = score, reverse = True): stable, equal scores keep their order
RECURSIVE InsertByScore(_, _)
InsertByScore(sorted, x) ==
    IF Len(sorted) = 0 THEN <<x>>
    ELSE IF Head(sorted).score >= x.score
         THEN <<Head(sorted)>> \o InsertByScore(Tail(sorted), x)
         ELSE <<x>> \o sorted

RECURSIVE SortByScoreDesc(_)
SortByScoreDesc(xs) ==
    IF Len(xs) = 0 THEN <<>>
    ELSE InsertByScore(SortByScoreDesc(SubSeq(xs, 1, Len(xs) - 1)), xs[Len(xs)])

\* suggestions[:5] without the cut
TopSuggestions_uncut(xs) == xs

\* return suggestions[:5]
TopSuggestions(xs) == SubSeq(xs, 1, Min(Len(xs), MaxSuggestions))

\* The datetimes current_date takes in the loop of suggest_slots
RangeDates(range_start, range_end) ==
    {range_start + k * MinutesPerDay : k \in 0..((range_end - range_start) \div MinutesPerDay)}

RECURSIVE DaysLoop(_, _, _, _, _)
DaysLoop(task, current_date, range_end, ovs, rows) ==
    IF current_date > range_end THEN <<>>
    ELSE generate_day_suggestions(task, DayContext(DayOf(current_date), ovs, rows),
                                  current_date, HasOverride(DayOf(current_date), ovs))
         \o DaysLoop(task, current_date + MinutesPerDay, range_end, ovs, rows)

\* A suggester that leaves out the starts some task is already scheduled at
suggest_slots_free_only(task_id, range_start, range_end, fault, tbl, ovs, rows) ==
    IF fault = "task" THEN <<>>
    ELSE IF task_id \notin DOMAIN tbl \/ ~tbl[task_id].exists THEN <<>>
    ELSE IF range_start > range_end THEN <<>>
    ELSE IF fault = "context" THEN <<>>
    ELSE IF \E d \in RangeDates(range_start, range_end) : ~DayContext(DayOf(d), ovs, rows).ok
         THEN <<>>
    ELSE TopSuggestions(SortByScoreDesc(SelectSeq(
            DaysLoop(tbl[task_id], range_start, range_end, ovs, rows),
            LAMBDA x : \A id \in DOMAIN tbl :
                          \A i \in 1..Len(tbl[id].scheduled_slots) :
                             tbl[id].scheduled_slots[i].start_time
                                # [date |-> DayOf(x.start_time),
                                   time |-> strftime_HM(x.start_time)])))

\* suggest_slots. fault names the step whose store access fails ("none": no
\* failure); every exception inside is caught and an empty list returned.
suggest_slots(task_id, range_start, range_end, fault, tbl, ovs, rows) ==
    IF fault = "task" THEN <<>>
    ELSE IF task_id \notin DOMAIN tbl \/ ~tbl[task_id].exists THEN <<>>
    ELSE IF range_start > range_end THEN <<>>
    ELSE IF fault = "context" THEN <<>>
    ELSE IF \E d \in RangeDates(range_start, range_end) : ~DayContext(DayOf(d), ovs, rows).ok
         THEN <<>>
    ELSE TopSuggestions(SortByScoreDesc(
            DaysLoop(tbl[task_id], range_start, range_end, ovs, rows)))

-----------------------------------------------------------------------------
(* Placement Validator (services/scheduling_engine.py) *)

\* A warning or block-reason string, by what it says
Msg(kind, rule_name, envs, env) ==
    [kind |-> kind, rule |-> rule_name, required |-> envs, actual |-> env]

TaskNotFound == Msg("Task not found", "", {}, "")
ValidationError == Msg("Validation error", "", {}, "")
EnvironmentReason(envs, env) == Msg("Task requires environments", "", envs, env)
AvailabilityReason == Msg("Proposed time is outside available hours", "", {}, "")
FocusWarning == Msg("Task requires high focus", "", {}, "")
RuleBlock(name) == Msg("Rule blocks", name, {}, "")
RuleWarn(name) == Msg("Rule warns", name, {}, "")
RuleSuggests(name) == Msg("Rule suggests alternative times", name, {}, "")

ValidationResult(is_valid, validation_result, warnings, block_reasons, rule_evaluations, suggestions) ==
    [is_valid |-> is_valid, validation_result |-> validation_result,
     warnings |-> warnings, block_reasons |-> block_reasons,
     rule_evaluations |-> rule_evaluations, suggestions |-> suggestions,
     raised |-> FALSE]

\* "Process rule actions", a rule's block reason added only when nothing has
\* blocked yet
RECURSIVE RuleActionsLoop_short_circuit(_, _, _, _)
RuleActionsLoop_short_circuit(evals, i, alternatives, acc) ==
    IF i > Len(evals) THEN acc
    ELSE LET e == evals[i]
             next ==
                IF ~e.triggered THEN acc
                ELSE IF e.action = "block"
                THEN IF Len(acc.block_reasons) > 0 THEN acc
                     ELSE [acc EXCEPT !.block_reasons = Append(@, RuleBlock(e.rule_name))]
                ELSE IF e.action = "warn"
                THEN [acc EXCEPT !.warnings = Append(@, RuleWarn(e.rule_name))]
                ELSE IF e.action = "suggest_alternative" /\ Len(alternatives) > 0
                THEN [acc EXCEPT !.warnings = Append(@, RuleSuggests(e.rule_name)),
                                 !.suggestions = @ \o alternatives]
                ELSE acc
         IN  RuleActionsLoop_short_circuit(evals, i + 1, alternatives, next)

\* "Process rule actions", a triggered WARN rule adding no message
RECURSIVE RuleActionsLoop_silent_warn(_, _, _, _)
RuleActionsLoop_silent_warn(evals, i, alternatives, acc) ==
    IF i > Len(evals) THEN acc
    ELSE LET e == evals[i]
             next ==
                IF ~e.triggered THEN acc
                ELSE IF e.action = "block"
                THEN [acc EXCEPT !.block_reasons = Append(@, RuleBlock(e.rule_name))]
                ELSE IF e.action = "suggest_alternative" /\ Len(alternatives) > 0
                THEN [acc EXCEPT !.warnings = Append(@, RuleSuggests(e.rule_name)),
                                 !.suggestions = @ \o alternatives]
                ELSE acc
         IN  RuleActionsLoop_silent_warn(evals, i + 1, alternatives, next)

\* "Process rule actions": the messages and suggestions the triggered rules add
RECURSIVE RuleActionsLoop(_, _, _, _)
RuleActionsLoop(evals, i, alternatives, acc) ==
    IF i > Len(evals) THEN acc
    ELSE LET e == evals[i]
             next ==
                IF ~e.triggered THEN acc
                ELSE IF e.action = "block"
                THEN [acc EXCEPT !.block_reasons = Append(@, RuleBlock(e.rule_name))]
                ELSE IF e.action = "warn"
                THEN [acc EXCEPT !.warnings = Append(@, RuleWarn(e.rule_name))]
                ELSE IF e.action = "suggest_alternative" /\ Len(alternatives) > 0
                THEN [acc EXCEPT !.warnings = Append(@, RuleSuggests(e.rule_name)),
                                 !.suggestions = @ \o alternatives]
                ELSE acc
         IN  RuleActionsLoop(evals, i + 1, alternatives, next)

\* final_result with the WARNED branch left out
final_result_no_warned(warnings, block_reasons, rule_evaluations, suggestions) ==
    IF Len(block_reasons) > 0
    THEN ValidationResult(FALSE, "blocked", warnings, block_reasons,
                          rule_evaluations, suggestions)
    ELSE ValidationResult(TRUE, "allowed", warnings, block_reasons,
                          rule_evaluations, suggestions)

\* "Determine final validation result"
final_result(warnings, block_reasons, rule_evaluations, suggestions) ==
    IF Len(block_reasons) > 0
    THEN ValidationResult(FALSE, "blocked", warnings, block_reasons,
                          rule_evaluations, suggestions)
    ELSE IF \/ Len(warnings) > 0
            \/ \E i \in 1..Len(rule_evaluations) :
                  rule_evaluations[i].action = "warn" /\ rule_evaluations[i].triggered
    THEN ValidationResult(TRUE, "warned", warnings, block_reasons,
                          rule_evaluations, suggestions)
    ELSE ValidationResult(TRUE, "allowed", warnings, block_reasons,
                          rule_evaluations, suggestions)

\* The environment check without its "if task.fitting_environments" guard
environment_block_reasons_unguarded(task, calendar_day) ==
    IF calendar_day.work_environment \notin task.fitting_environments
    THEN <<EnvironmentReason(task.fitting_environments, calendar_day.work_environment)>>
    ELSE <<>>

\* "Check environment compatibility"
environment_block_reasons(task, calendar_day) ==
    IF /\ task.fitting_environments # {}
       /\ calendar_day.work_environment \notin task.fitting_environments
    THEN <<EnvironmentReason(task.fitting_environments, calendar_day.work_environment)>>
    ELSE <<>>

\* The focus check warning only when no focus slot covers the window
focus_warnings_only_without_slot(task, start_time, end_time, calendar_day) ==
    IF /\ task.requires_focus
       /\ get_focus_level_for_timespan(start_time, end_time, calendar_day) = NoLevel
    THEN <<FocusWarning>>
    ELSE <<>>

\* "Check focus requirements": a warning, never a block reason
focus_warnings(task, start_time, end_time, calendar_day) ==
    IF /\ task.requires_focus
       /\ get_focus_level_for_timespan(start_time, end_time, calendar_day) # "high"
    THEN <<FocusWarning>>
    ELSE <<>>

\* "Check availability"
availability_block_reasons(start_time, end_time, calendar_day) ==
    IF ~is_within_availability(start_time, end_time, calendar_day)
    THEN <<AvailabilityReason>>
    ELSE <<>>

\* Whether some triggered rule asks for alternatives
NeedsAlternatives(evaluations) ==
    \E i \in 1..Len(evaluations) :
        /\ evaluations[i].triggered
        /\ evaluations[i].action = "suggest_alternative"

\* The end of the try block: the result built from the collected messages
BuildResult(acc, evaluations) ==
    [exc |-> FALSE,
     result |-> final_result(acc.warnings, acc.block_reasons, evaluations, acc.suggestions)]

\* The try block once the rules are evaluated: rule actions, final result
AfterRules(re, builtin, task_id, start_time, fault, tbl, ovs, rows) ==
    IF fault = "rules" \/ re.raised THEN [exc |-> TRUE]
    ELSE BuildResult(
            RuleActionsLoop(re.evaluations, 1,
                IF NeedsAlternatives(re.evaluations)
                THEN suggest_slots(task_id, start_time,
                                   start_time + SuggestWindowDays * MinutesPerDay,
                                   "none", tbl, ovs, rows)
                ELSE <<>>,
                builtin),
            re.evaluations)

\* The try block once the day context is known: built-in checks, then rules
WithDayContext(task, calendar_day, task_id, start_time, end_time, fault, tbl, ovs, rows, table) ==
    IF ~calendar_day.ok THEN [exc |-> TRUE]
    ELSE AfterRules(
            evaluate_rules(task, calendar_day, start_time, end_time, table),
            [warnings |-> focus_warnings(task, start_time, end_time, calendar_day),
             block_reasons |->
                 environment_block_reasons(task, calendar_day)
                 \o availability_block_reasons(start_time, end_time, calendar_day),
             suggestions |-> <<>>],
            task_id, start_time, fault, tbl, ovs, rows)

\* The try block of validate_placement: exc = TRUE when it raised, else result
validate_body(task_id, start_time, end_time, fault, tbl, ovs, rows, table) ==
    IF fault = "task" THEN [exc |-> TRUE]
    ELSE IF task_id \notin DOMAIN tbl \/ ~tbl[task_id].exists
    THEN [exc |-> FALSE,
          result |-> ValidationResult(FALSE, "blocked", <<>>, <<TaskNotFound>>, <<>>, <<>>)]
    ELSE IF fault = "context" THEN [exc |-> TRUE]
    ELSE WithDayContext(tbl[task_id], DayContext(DayOf(start_time), ovs, rows),
                        task_id, start_time, end_time, fault, tbl, ovs, rows, table)

\* validate_placement without its except clause: the exception propagates
Propagate(body) ==
    IF body.exc
    THEN [ValidationResult(FALSE, "none", <<>>, <<>>, <<>>, <<>>) EXCEPT !.raised = TRUE]
    ELSE body.result

validate_placement_no_except(task_id, start_time, end_time, fault, tbl, ovs, rows, table) ==
    Propagate(validate_body(task_id, start_time, end_time, fault, tbl, ovs, rows, table))

\* except Exception: the BLOCKED result that carries the error text
Caught(body) ==
    IF body.exc
    THEN ValidationResult(FALSE, "blocked", <<>>, <<ValidationError>>, <<>>, <<>>)
    ELSE body.result

\* validate_placement: whatever the try block raises becomes a BLOCKED result
validate_placement(task_id, start_time, end_time, fault, tbl, ovs, rows, table) ==
    Caught(validate_body(task_id, start_time, end_time, fault, tbl, ovs, rows, table))

-----------------------------------------------------------------------------
(* Auto-Scheduler (services/scheduling_engine.py) *)

\* datetime.isoformat(): the date and the time of day, as text
isoformat(t) == [date |-> DayOf(t), time |-> strftime_HM(t)]

\* PostgreSQL order of the priority enum: low < medium < high < urgent
PriorityRank(p) ==
    IF p = "low" THEN 1 ELSE IF p = "medium" THEN 2
    ELSE IF p = "high" THEN 3 ELSE IF p = "urgent" THEN 4 ELSE 5

\* ORDER BY priority DESC, deadline ASC with NULL deadlines first
Before_nulls_first(tbl, a, b) ==
    LET ta == tbl[a]
        tb == tbl[b]
    IN  \/ PriorityRank(ta.priority) > PriorityRank(tb.priority)
        \/ /\ ta.priority = tb.priority
           /\ \/ ta.deadline = NoDeadline /\ tb.deadline # NoDeadline
              \/ /\ ta.deadline # NoDeadline /\ tb.deadline # NoDeadline
                 /\ ta.deadline < tb.deadline
              \/ ta.deadline = tb.deadline /\ a < b

\* ORDER BY priority DESC, deadline ASC: a NULL deadline sorts last, a NULL
\* priority first under DESC; rows equal on both keys come in id order
Before(tbl, a, b) ==
    LET ta == tbl[a]
        tb == tbl[b]
    IN  \/ PriorityRank(ta.priority) > PriorityRank(tb.priority)
        \/ /\ ta.priority = tb.priority
           /\ \/ ta.deadline # NoDeadline /\ tb.deadline = NoDeadline
              \/ /\ ta.deadline # NoDeadline /\ tb.deadline # NoDeadline
                 /\ ta.deadline < tb.deadline
              \/ ta.deadline = tb.deadline /\ a < b

RECURSIVE OrderedTasks(_, _)
OrderedTasks(tbl, ids) ==
    IF ids = {} THEN <<>>
    ELSE LET first == CHOOSE a \in ids : \A b \in ids \ {a} : Before(tbl, a, b)
         IN  <<first>> \o OrderedTasks(tbl, ids \ {first})

\* The tasks query of auto_schedule_tasks: the user's rows among task_ids
LoadedTasks(tbl, task_ids) ==
    OrderedTasks(tbl, {id \in DOMAIN tbl :
                          /\ tbl[id].exists
                          /\ \E i \in 1..Len(task_ids) : task_ids[i] = id})

NoBatch ==
    [phase |-> "none", task_ids |-> <<>>, range_start |-> 0, range_end |-> 0,
     queue |-> <<>>, scheduled |-> <<>>, failed |-> <<>>, written |-> {},
     best |-> <<>>, accepted |-> <<>>]

\* The dict auto_schedule_tasks returns
Summary(b, scheduled, failed) ==
    [b EXCEPT !.phase = "done", !.queue = <<>>,
              !.scheduled = scheduled, !.failed = failed]

\* The new slot appended to the slots the task had
new_scheduled_slots_appended(old_slots, best_suggestion) ==
    Append(old_slots,
           [start_time |-> isoformat(best_suggestion.start_time),
            end_time |-> isoformat(best_suggestion.end_time),
            calendar_day_id |-> best_suggestion.calendar_day_id])

\* task.scheduled_slots = [{...}]: the one slot of the suggestion, whatever
\* slots the task had
new_scheduled_slots(old_slots, best_suggestion) ==
    <<[start_time |-> isoformat(best_suggestion.start_time),
       end_time |-> isoformat(best_suggestion.end_time),
       calendar_day_id |-> best_suggestion.calendar_day_id]>>

total_tasks(b) == Len(b.task_ids)
\* success_rate as the fraction <<numerator, denominator>>; 0 for no task_ids
success_rate(b) ==
    IF Len(b.task_ids) = 0 \/ (Len(b.failed) > 0 /\ b.failed[1].reason = "error")
    THEN <<0, 1>>
    ELSE <<Len(b.scheduled), Len(b.task_ids)>>

-----------------------------------------------------------------------------
(* The store the engine reads: catalogues the initial tables are drawn from *)

Dates == 0..MaxDay
TaskIds == {1, 2}

Task(priority, minutes, deadline, envs, focus, category, slots) ==
    [exists |-> TRUE, priority |-> priority, estimated_duration_minutes |-> minutes,
     deadline |-> deadline, fitting_environments |-> envs, requires_focus |-> focus,
     category_id |-> category, scheduled_slots |-> slots]

NoTask ==
    [exists |-> FALSE, priority |-> NoPriority, estimated_duration_minutes |-> 1,
     deadline |-> NoDeadline, fitting_environments |-> {}, requires_focus |-> FALSE,
     category_id |-> NoCategory, scheduled_slots |-> <<>>]

OldSlot ==
    <<[start_time |-> isoformat(At(0, 8, 0)), end_time |-> isoformat(At(0, 8, 30)),
       calendar_day_id |-> "null"],
      [start_time |-> isoformat(At(0, 18, 0)), end_time |-> isoformat(At(0, 18, 30)),
       calendar_day_id |-> "null"]>>

FirstTasks ==
    { Task("high", 60, NoDeadline, {"home"}, TRUE, "work", <<>>),
      Task("low", 60, NoDeadline, {"outdoors"}, FALSE, "personal", OldSlot),
      Task("medium", 30, NoDeadline, {}, FALSE, "work", OldSlot) }

SecondTasks ==
    { NoTask,
      Task("urgent", 120, At(1, 12, 0), {}, TRUE, NoCategory, <<>>) }

TaskTables == {[id \in TaskIds |-> IF id = 1 THEN a ELSE b] : a \in FirstTasks, b \in SecondTasks}

\* Pairs of tasks that the ORDER BY of the batch query has to tell apart: equal
\* priority with and without a deadline, equal priority with two deadlines in
\* both id orders, and a higher priority against an earlier deadline
Pair(a, b) == [id \in TaskIds |-> IF id = 1 THEN a ELSE b]
TiedTaskTables ==
    { Pair(Task("medium", 30, NoDeadline, {}, FALSE, "work", <<>>),
           Task("medium", 30, At(1, 12, 0), {}, FALSE, "work", <<>>)),
      Pair(Task("medium", 30, At(0, 18, 0), {}, FALSE, "work", <<>>),
           Task("medium", 30, At(1, 12, 0), {}, FALSE, "work", <<>>)),
      Pair(Task("medium", 30, At(1, 18, 0), {}, FALSE, "work", <<>>),
           Task("medium", 30, At(1, 12, 0), {}, FALSE, "work", <<>>)),
      Pair(Task("high", 30, NoDeadline, {}, FALSE, "work", <<>>),
           Task("medium", 30, At(1, 12, 0), {}, FALSE, "work", <<>>)) }

Override(env, fs, av) ==
    [present |-> TRUE, work_environment |-> env, focus_slots |-> fs,
     availability_slots |-> av]
NoOverride ==
    [present |-> FALSE, work_environment |-> "home", focus_slots |-> <<>>,
     availability_slots |-> <<>>]

OverrideRows ==
    { Override("office", <<FocusSlot(T(9, 0), T(11, 0), "high")>>,
               <<AvailabilitySlot(T(9, 0), T(17, 0), "available")>>),
      Override("home", <<>>, <<>>),
      Override("home",
               <<FocusSlot(T(14, 0), T(18, 0), "low"), FocusSlot(T(9, 0), T(15, 0), "high")>>,
               <<AvailabilitySlot(T(9, 0), T(12, 0), "busy"),
                 AvailabilitySlot(T(13, 0), T(18, 0), "available"),
                 AvailabilitySlot(T(16, 0), T(16, 30), "available")>>) }

\* A day whose morning focus slot lies in busy hours
BusyMorning ==
    Override("home", <<FocusSlot(T(9, 0), T(11, 0), "high")>>,
             <<AvailabilitySlot(T(9, 0), T(12, 0), "busy"),
               AvailabilitySlot(T(13, 0), T(17, 0), "available")>>)

\* user_calendar_days holds at most one row
OverrideTables ==
    {[d \in Dates |-> NoOverride]} \cup
    {[d \in Dates |-> IF d = day THEN row ELSE NoOverride] : day \in Dates, row \in OverrideRows}

Setting(type, wrapped, payload, pattern, active) ==
    [setting_type |-> type, value |-> [wrapped |-> wrapped, payload |-> payload],
     recurrence_pattern |-> pattern, is_active |-> active]

SettingTables ==
    { <<>>,
      \* office on Saturdays (day 0), every week
      <<Setting("work_environment", TRUE, "office",
                RecurrencePattern("weekly", {5}, -7, NoDate, 1), TRUE)>>,
      \* an inactive row, a row whose pattern does not parse, and focus slots daily
      <<Setting("work_environment", TRUE, "outdoors",
                RecurrencePattern("daily", {}, 0, NoDate, 1), FALSE),
        Setting("availability_slots", TRUE, <<>>,
                RecurrencePattern("yearly", {}, 0, NoDate, 1), TRUE),
        Setting("focus_slots", TRUE, <<FocusSlot(T(13, 0), T(15, 0), "high")>>,
                RecurrencePattern("daily", {}, -2, NoDate, 1), TRUE)>>,
      \* a stored slot whose end is not after its start, on Sundays (day 1)
      <<Setting("availability_slots", TRUE,
                <<AvailabilitySlot(T(12, 0), T(9, 0), "available")>>,
                RecurrencePattern("custom", {6}, 0, NoDate, 1), TRUE)>> }

Rule(name, conditions, action, order, active) ==
    [name |-> name, conditions |-> conditions, action |-> action,
     priority_order |-> order, is_active |-> active]

RuleCatalogue ==
    { Rule("Block high priority outside focus",
           <<Condition("task_property", "priority", "equals", PyStr("high")),
             Condition("time_slot", "is_focus_time", "equals", PyBool(FALSE))>>,
           "block", 1, TRUE),
      Rule("Warn work tasks",
           <<Condition("task_property", "category_id", "equals", PyStr("work"))>>,
           "warn", 2, TRUE),
      Rule("No conditions", <<>>, "block", 3, TRUE),
      Rule("Afternoon alternatives",
           <<Condition("time_slot", "hour_of_day", "greater_than", PyInt(12))>>,
           "suggest_alternative", 4, TRUE),
      Rule("Long focus work",
           <<Condition("task_property", "requires_focus", "equals", PyBool(TRUE)),
             Condition("task_property", "priority", "greater_than", PyInt(3))>>,
           "warn", 5, TRUE),
      Rule("Switched off",
           <<Condition("task_property", "colour", "equals", PyStr("work")),
             Condition("time_slot", "is_available", "matches", PyBool(TRUE))>>,
           "block", 7, FALSE),
      Rule("Allow anything",
           <<Condition("other", "x", "equals", PyNone)>>, "allow", 8, TRUE) }

RuleTables == {S \in SUBSET RuleCatalogue : Cardinality(S) <= MaxRules}

-----------------------------------------------------------------------------
(* Requests *)

ProposedStarts == {At(d, 9, 30) : d \in Dates} \cup {At(d, 14, 0) : d \in Dates}
                  \cup {At(d, 16, 30) : d \in Dates}
\* an hour, and an hour that ends on the next calendar date
ProposedLengths == {60, MinutesPerDay + 60}
RangeBounds == {At(d, 0, 0) : d \in Dates}
TaskIdLists == {<<>>} \cup {<<a>> : a \in TaskIds} \cup {<<a, b>> : a, b \in TaskIds}

NoCall == [task_id |-> 0, start_time |-> 0, end_time |-> 0, fault |-> "none"]
NoValidation == ValidationResult(TRUE, "none", <<>>, <<>>, <<>>, <<>>)

-----------------------------------------------------------------------------
(* The state machine *)

\* The calendar tables: override rows without settings, settings without
\* override rows, an override row on a date a setting also matches, an
\* override row with empty lists next to a date only a setting matches, and
\* the day with the busy morning
DayStores ==
    {<<o, <<>>>> : o \in OverrideTables}
    \cup {<<[d \in Dates |-> NoOverride], st>> : st \in SettingTables}
    \cup {<<[d \in Dates |-> IF d = 0 THEN row ELSE NoOverride], st>> :
             row \in {r \in OverrideRows : r.work_environment = "office"},
             st \in {t \in SettingTables : Len(t) = 1}}
    \cup {<<[d \in Dates |-> IF d = MaxDay THEN Override("home", <<>>, <<>>) ELSE NoOverride], st>> :
             st \in {t \in SettingTables :
                       Len(t) = 1 /\ t[1].setting_type = "work_environment"}}
    \cup {<<[d \in Dates |-> IF d = 0 THEN BusyMorning ELSE NoOverride], <<>>>>}

PlainDayStore == <<[d \in Dates |-> NoOverride], <<>>>>
\* The rule tables met on every calendar: none, the blocking rule, the
\* suggesting rule
PlainRuleTables ==
    {S \in RuleTables : Cardinality(S) <= 1 /\ \A r \in S : r.priority_order \in {1, 4}}

\* Every rule table on the default calendar, and every calendar under the
\* plain rule tables
Stores ==
    {<<PlainDayStore, rt>> : rt \in RuleTables}
    \cup {<<ds, rt>> : ds \in DayStores, rt \in PlainRuleTables}

NoProbe == [date |-> NoDate, pattern |-> RecurrencePattern("daily", {}, 0, NoDate, 1),
            calls |-> 0, result |-> FALSE, again |-> FALSE]

\* Two requests served at the same time, each with a session of its own
Callers == {1, 2}
NoSession ==
    [phase |-> "new", task_ids |-> <<>>, range_start |-> 0, range_end |-> 0,
     queue |-> <<>>, pending |-> <<>>, scheduled |-> <<>>, failed |-> <<>>]
NoSessions == [c \in Callers |-> NoSession]

\* The task tables on every store, and the tied pairs on the plain store
Databases ==
    {<<tt, st>> : tt \in TaskTables, st \in Stores}
    \cup {<<tt, <<PlainDayStore, {}>>>> : tt \in TiedTaskTables}

Init ==
    /\ \E db \in Databases :
          /\ tasks = db[1]
          /\ overrides = db[2][1][1]
          /\ settings = db[2][1][2]
          /\ rules = db[2][2]
    /\ op = "idle"
    /\ call = NoCall
    /\ vres = NoValidation
    /\ sres = <<>>
    /\ batch = NoBatch
    /\ probe = NoProbe
    /\ sessions = NoSessions

\* POST /scheduling/validate
Validate(task_id, start_time, end_time, fault) ==
    /\ op = "idle"
    /\ op' = "validate"
    /\ call' = [task_id |-> task_id, start_time |-> start_time,
                end_time |-> end_time, fault |-> fault]
    /\ vres' = validate_placement(task_id, start_time, end_time, fault,
                                  tasks, overrides, settings, rules)
    /\ sres' = <<>>
    /\ batch' = NoBatch
    /\ UNCHANGED <<tasks, overrides, settings, rules>>
    /\ UNCHANGED <<probe, sessions>>

\* POST /scheduling/suggest
Suggest(task_id, range_start, range_end, fault) ==
    /\ op = "idle"
    /\ op' = "suggest"
    /\ call' = [task_id |-> task_id, start_time |-> range_start,
                end_time |-> range_end, fault |-> fault]
    /\ sres' = suggest_slots(task_id, range_start, range_end, fault,
                             tasks, overrides, settings)
    /\ vres' = NoValidation
    /\ batch' = NoBatch
    /\ UNCHANGED <<tasks, overrides, settings, rules>>
    /\ UNCHANGED <<probe, sessions>>

ErrorEntry == [task_id |-> 0, reason |-> "error", errors |-> <<>>]

\* POST /scheduling/auto-schedule, up to the tasks query
AutoStart(task_ids, range_start, range_end, fault) ==
    /\ op = "idle"
    /\ op' = "auto"
    /\ call' = [task_id |-> 0, start_time |-> range_start,
                end_time |-> range_end, fault |-> fault]
    /\ LET b == [NoBatch EXCEPT !.task_ids = task_ids,
                                !.range_start = range_start,
                                !.range_end = range_end]
       IN  batch' = IF fault = "load"
                    THEN Summary(b, <<>>, <<ErrorEntry>>)
                    ELSE [b EXCEPT !.phase = "running",
                                   !.queue = LoadedTasks(tasks, task_ids)]
    /\ vres' = NoValidation
    /\ sres' = <<>>
    /\ UNCHANGED <<tasks, overrides, settings, rules>>
    /\ UNCHANGED <<probe, sessions>>

\* An iteration that goes down the list to the first suggestion that validates
AutoStep_backtracking(fault) ==
    /\ batch.phase = "running"
    /\ Len(batch.queue) > 0
    /\ \E suggestions \in {suggest_slots(Head(batch.queue), batch.range_start,
                                          batch.range_end, "none",
                                          tasks, overrides, settings)} :
       LET id == Head(batch.queue)
           rest == [batch EXCEPT !.queue = Tail(@)]
       IN  IF Len(suggestions) = 0
           THEN /\ batch' = [rest EXCEPT !.failed = Append(@,
                                [task_id |-> id, reason |-> "No suitable slots found",
                                 errors |-> <<>>])]
                /\ UNCHANGED tasks
           ELSE
           \E best_suggestion \in
                 {LET valid == {k \in 1..Len(suggestions) :
                                  validate_placement(id, suggestions[k].start_time,
                                      suggestions[k].end_time, "none",
                                      tasks, overrides, settings, rules).is_valid}
                  IN  IF valid = {} THEN suggestions[1]
                      ELSE suggestions[CHOOSE k \in valid : \A j \in valid : k <= j]} :
           \E validation \in {validate_placement(id, best_suggestion.start_time,
                                  best_suggestion.end_time, "none",
                                  tasks, overrides, settings, rules)} :
           IF ~validation.is_valid
           THEN /\ batch' = [rest EXCEPT !.failed = Append(@,
                                [task_id |-> id, reason |-> "Validation failed",
                                 errors |-> validation.block_reasons])]
                /\ UNCHANGED tasks
           ELSE IF fault = "commit"
           THEN \* db.commit() raises: the except branch returns the error summary
                /\ batch' = Summary(batch, <<>>, <<ErrorEntry>>)
                /\ UNCHANGED tasks
           ELSE /\ tasks' = [tasks EXCEPT ![id].scheduled_slots =
                                new_scheduled_slots(@, best_suggestion)]
                /\ batch' = [rest EXCEPT
                                !.scheduled = Append(@,
                                    [task_id |-> id,
                                     scheduled_time |-> isoformat(best_suggestion.start_time),
                                     score |-> best_suggestion.score]),
                                !.written = @ \cup {id},
                                !.best = Append(@, best_suggestion),
                                !.accepted = Append(@, validation)]
    /\ UNCHANGED <<overrides, settings, rules, op, call, vres, sres>>
    /\ UNCHANGED <<probe, sessions>>

\* One iteration of "for task in tasks": suggest, validate the best, commit
AutoStep(fault) ==
    /\ batch.phase = "running"
    /\ Len(batch.queue) > 0
    /\ \E suggestions \in {suggest_slots(Head(batch.queue), batch.range_start,
                                          batch.range_end, "none",
                                          tasks, overrides, settings)} :
       LET id == Head(batch.queue)
           rest == [batch EXCEPT !.queue = Tail(@)]
       IN  IF Len(suggestions) = 0
           THEN /\ batch' = [rest EXCEPT !.failed = Append(@,
                                [task_id |-> id, reason |-> "No suitable slots found",
                                 errors |-> <<>>])]
                /\ UNCHANGED tasks
           ELSE
           \E best_suggestion \in {suggestions[1]} :
           \E validation \in {validate_placement(id, best_suggestion.start_time,
                                  best_suggestion.end_time, "none",
                                  tasks, overrides, settings, rules)} :
           IF ~validation.is_valid
           THEN /\ batch' = [rest EXCEPT !.failed = Append(@,
                                [task_id |-> id, reason |-> "Validation failed",
                                 errors |-> validation.block_reasons])]
                /\ UNCHANGED tasks
           ELSE IF fault = "commit"
           THEN \* db.commit() raises: the except branch returns the error summary
                /\ batch' = Summary(batch, <<>>, <<ErrorEntry>>)
                /\ UNCHANGED tasks
           ELSE /\ tasks' = [tasks EXCEPT ![id].scheduled_slots =
                                new_scheduled_slots(@, best_suggestion)]
                /\ batch' = [rest EXCEPT
                                !.scheduled = Append(@,
                                    [task_id |-> id,
                                     scheduled_time |-> isoformat(best_suggestion.start_time),
                                     score |-> best_suggestion.score]),
                                !.written = @ \cup {id},
                                !.best = Append(@, best_suggestion),
                                !.accepted = Append(@, validation)]
    /\ UNCHANGED <<overrides, settings, rules, op, call, vres, sres>>
    /\ UNCHANGED <<probe, sessions>>

\* The loop is over: return the summary
AutoReturn ==
    /\ batch.phase = "running"
    /\ Len(batch.queue) = 0
    /\ batch' = Summary(batch, batch.scheduled, batch.failed)
    /\ UNCHANGED <<tasks, overrides, settings, rules, op, call, vres, sres>>
    /\ UNCHANGED <<probe, sessions>>

\* The response of a read-only request has been delivered: the engine waits
\* for the next request. A behaviour holds at most one auto-schedule call.
Respond ==
    /\ op \in {"validate", "suggest"}
    /\ op' = "idle"
    /\ call' = NoCall
    /\ vres' = NoValidation
    /\ sres' = <<>>
    /\ batch' = NoBatch
    /\ UNCHANGED <<tasks, overrides, settings, rules>>
    /\ UNCHANGED <<probe, sessions>>

\* A failing store access gives the same result whatever the times asked
\* for, so the failures are injected on one request per task; a failing
\* commit is injected at any step of one batch (call.fault = "commit").
Next ==
    \/ \E id \in TaskIds, s \in ProposedStarts, n \in ProposedLengths :
          Validate(id, s, s + n, "none")
    \/ \E id \in TaskIds, f \in {"task", "context", "rules"} :
          Validate(id, At(0, 9, 30), At(0, 10, 30), f)
    \/ \E id \in TaskIds, a \in RangeBounds, b \in RangeBounds :
          a <= b /\ Suggest(id, a, b, "none")
    \/ \E id \in TaskIds, f \in {"task", "context"} :
          Suggest(id, At(0, 0, 0), At(MaxDay, 0, 0), f)
    \/ \E ids \in TaskIdLists, a \in RangeBounds, b \in RangeBounds :
          a <= b /\ AutoStart(ids, a, b, "none")
    \/ \E f \in {"load", "commit"} :
          AutoStart(<<1, 2>>, At(0, 0, 0), At(MaxDay, 0, 0), f)
    \/ AutoStep("none")
    \/ call.fault = "commit" /\ AutoStep("commit")
    \/ AutoReturn
    \/ Respond

Spec == Init /\ [][Next]_vars

-----------------------------------------------------------------------------
(* The recurrence matcher on its own: is_date_in_pattern applied to a date   *)
(* and a parsed RecurrencePattern, and applied to them once more.            *)

\* 2024-12-01, 2024-12-31, 2025-01-01, 2025-04-01 and 2025-05-02 next to the
\* days around 2025-03-01
ProbeDates == ((0 - MaxProbeDay)..MaxProbeDay) \cup {-90, -60, -59, 31, 62}
ProbePatterns ==
    {RecurrencePattern(type, dows, start, end, interval) :
        type \in {"daily", "weekly", "monthly", "custom"},
        dows \in {{}, {5}, {0, 6}},
        start \in {-90, -60, -7, 0, 1},
        end \in {NoDate, 0, 31},
        interval \in 1..MaxInterval}

PatternInit ==
    /\ tasks = [id \in TaskIds |-> NoTask]
    /\ overrides = [d \in Dates |-> NoOverride]
    /\ settings = <<>>
    /\ rules = {}
    /\ op = "idle"
    /\ call = NoCall
    /\ vres = NoValidation
    /\ sres = <<>>
    /\ batch = NoBatch
    /\ sessions = NoSessions
    /\ \E d \in ProbeDates, p \in ProbePatterns :
          probe = [NoProbe EXCEPT !.date = d, !.pattern = p]

EvaluatePattern ==
    /\ probe.calls = 0
    /\ probe' = [probe EXCEPT !.calls = 1,
                              !.result = is_date_in_pattern(probe.date, probe.pattern)]
    /\ UNCHANGED <<tasks, overrides, settings, rules, op, call, vres, sres, batch, sessions>>

ReevaluatePattern ==
    /\ probe.calls = 1
    /\ probe' = [probe EXCEPT !.calls = 2,
                              !.again = is_date_in_pattern(probe.date, probe.pattern)]
    /\ UNCHANGED <<tasks, overrides, settings, rules, op, call, vres, sres, batch, sessions>>

PatternNext == EvaluatePattern \/ ReevaluatePattern

PatternSpec == PatternInit /\ [][PatternNext]_vars

-----------------------------------------------------------------------------
(* The slot scorer on its own: _calculate_slot_score applied to a task, a    *)
(* resolved day and a candidate window.                                      *)

\* Deadlines before the candidate, later on its day, and whole and half days
\* after it
ScoreDeadlines ==
    {NoDeadline, At(0, 8, 0)}
    \cup {At(d, 9, 0) : d \in 0..MaxDeadlineDay}
    \cup {At(d, 21, 0) : d \in 0..MaxDeadlineDay}
ScoreTasks ==
    {Task(priority, 60, deadline, envs, focus, "work", <<>>) :
        priority \in PriorityEnum,
        deadline \in ScoreDeadlines,
        envs \in {{}, {"home"}, {"office", "outdoors"}},
        focus \in BOOLEAN}
\* The default day, an office day with one focus slot, a day without slots
ScoreDays ==
    {DayContext(0, [d \in Dates |-> IF d = 0 THEN row ELSE NoOverride], <<>>) :
        row \in {NoOverride,
                 Override("office", <<FocusSlot(T(9, 0), T(11, 0), "high")>>,
                          <<AvailabilitySlot(T(9, 0), T(17, 0), "available")>>),
                 Override("home", <<>>, <<>>)}}
\* Candidate windows: a focus slot, the business hours, an afternoon hour
ScoreWindows ==
    {<<At(0, 9, 0), At(0, 11, 0)>>, <<At(0, 9, 0), At(0, 17, 0)>>,
     <<At(0, 15, 0), At(0, 16, 0)>>}

ScoreInit ==
    /\ tasks = [id \in TaskIds |-> NoTask]
    /\ overrides = [d \in Dates |-> NoOverride]
    /\ settings = <<>>
    /\ rules = {}
    /\ op = "idle"
    /\ call = NoCall
    /\ vres = NoValidation
    /\ sres = <<>>
    /\ batch = NoBatch
    /\ sessions = NoSessions
    /\ \E task \in ScoreTasks, calendar_day \in ScoreDays, w \in ScoreWindows :
          probe = [task |-> task, calendar_day |-> calendar_day,
                   start_time |-> w[1], end_time |-> w[2], calls |-> 0, score |-> 0]

ScoreCandidate ==
    /\ probe.calls = 0
    /\ probe' = [probe EXCEPT
                    !.calls = 1,
                    !.score = calculate_slot_score(probe.task, probe.calendar_day,
                                                   probe.start_time, probe.end_time)]
    /\ UNCHANGED <<tasks, overrides, settings, rules, op, call, vres, sres, batch, sessions>>

ScoreNext == ScoreCandidate

ScoreSpec == ScoreInit /\ [][ScoreNext]_vars

-----------------------------------------------------------------------------
(* The condition evaluator on its own: the conditions of one rule evaluated  *)
(* for a task, a resolved day and a span, and the focus level of the span.   *)

\* The default day, a day without slots, a day with two overlapping focus
\* slots, and a day with a late-evening focus slot
SlotDays ==
    {[d \in Dates |-> IF d = 0 THEN row ELSE NoOverride] :
        row \in {NoOverride,
                 Override("home", <<>>, <<>>),
                 Override("home",
                    <<FocusSlot(T(14, 0), T(18, 0), "low"), FocusSlot(T(9, 0), T(15, 0), "high")>>,
                    <<AvailabilitySlot(T(9, 0), T(18, 0), "available")>>),
                 Override("office", <<FocusSlot(T(23, 0), T(23, 59), "high")>>, <<>>)}}
SpanStarts ==
    {At(0, 9, 0), At(0, 10, 30), At(0, 13, 30), At(0, 14, 30), At(0, 16, 30), At(0, 23, 30)}
SpanLengths == {30, 60, 90}
SlotTasks ==
    {Task("high", 60, NoDeadline, {"home"}, TRUE, "work", <<>>),
     Task("medium", 30, NoDeadline, {}, FALSE, NoCategory, <<>>)}

\* Conditions the engine knows, and conditions whose field or operator it
\* does not know, for each source
KnownConditions ==
    {Condition("time_slot", "is_focus_time", "equals", PyBool(TRUE)),
     Condition("time_slot", "is_focus_time", "equals", PyBool(FALSE)),
     Condition("time_slot", "is_focus_time", "equals", PyStr("high")),
     Condition("task_property", "priority", "equals", PyStr("low")),
     Condition("calendar_day", "work_environment", "greater_than", PyInt(1))}
UnknownConditions ==
    {Condition("task_property", "colour", "equals", PyStr("work")),
     Condition("calendar_day", "weather", "less_than", PyInt(3)),
     Condition("time_slot", "minute_of_hour", "greater_than", PyNone),
     Condition("task_property", "priority", "matches", PyStr("low")),
     Condition("task_property", "category_id", "between", PyInt(3)),
     Condition("calendar_day", "work_environment", "matches", PyInt(1)),
     Condition("calendar_day", "has_focus_slots", "is", PyBool(FALSE)),
     Condition("time_slot", "is_focus_time", "matches", PyBool(TRUE)),
     Condition("time_slot", "is_focus_time", "like", PyStr("low")),
     Condition("time_slot", "is_available", "between", PyBool(FALSE)),
     Condition("time_slot", "hour_of_day", "at_least", PyStr("work"))}
ConditionLists ==
    {<<c>> : c \in KnownConditions \cup UnknownConditions}
    \cup {<<c, d>> : c, d \in UnknownConditions}

NoLevelYet == "unresolved"

ConditionInit ==
    /\ tasks = [id \in TaskIds |-> NoTask]
    /\ overrides = [d \in Dates |-> NoOverride]
    /\ settings = <<>>
    /\ rules = {}
    /\ op = "idle"
    /\ call = NoCall
    /\ vres = NoValidation
    /\ sres = <<>>
    /\ batch = NoBatch
    /\ sessions = NoSessions
    /\ \E task \in SlotTasks, days \in SlotDays, start_time \in SpanStarts,
          n \in SpanLengths, conditions \in ConditionLists :
          probe = [task |-> task, days |-> days, calendar_day |-> DayContext(0, days, <<>>),
                   start_time |-> start_time, end_time |-> start_time + n,
                   conditions |-> conditions, calls |-> 0,
                   results |-> <<>>, triggered |-> "false", level |-> NoLevelYet,
                   validation |-> NoValidation]

\* _evaluate_rule_conditions for a rule with the probed conditions, and each
\* of its conditions by itself
EvaluateConditions ==
    /\ probe.calls = 0
    /\ probe' = [probe EXCEPT
                    !.calls = 1,
                    !.results = [i \in 1..Len(probe.conditions) |->
                                    evaluate_condition(probe.conditions[i], probe.task,
                                        probe.calendar_day, probe.start_time, probe.end_time)],
                    !.triggered = evaluate_rule_conditions(
                                      Rule("probed", probe.conditions, "block", 1, TRUE),
                                      probe.task, probe.calendar_day,
                                      probe.start_time, probe.end_time)]
    /\ UNCHANGED <<tasks, overrides, settings, rules, op, call, vres, sres, batch, sessions>>

\* _get_focus_level_for_timespan for the probed span
ResolveFocusLevel ==
    /\ probe.level = NoLevelYet
    /\ probe' = [probe EXCEPT
                    !.level = get_focus_level_for_timespan(probe.start_time, probe.end_time,
                                                           probe.calendar_day)]
    /\ UNCHANGED <<tasks, overrides, settings, rules, op, call, vres, sres, batch, sessions>>

\* validate_placement of the probed task and span, the probed conditions
\* being those of the user's one active rule
ValidateProbe ==
    /\ probe.validation = NoValidation
    /\ probe' = [probe EXCEPT
                    !.validation =
                        validate_placement(1, probe.start_time, probe.end_time, "none",
                            [id \in TaskIds |-> IF id = 1 THEN probe.task ELSE NoTask],
                            probe.days, <<>>,
                            {Rule("probed", probe.conditions, "block", 1, TRUE)})]
    /\ UNCHANGED <<tasks, overrides, settings, rules, op, call, vres, sres, batch, sessions>>

ConditionNext == EvaluateConditions \/ ResolveFocusLevel \/ ValidateProbe

ConditionSpec == ConditionInit /\ [][ConditionNext]_vars

-----------------------------------------------------------------------------
(* One slot handed to the slot schema, and the engine's comparison of the    *)
(* accepted slot's strings with a formatted time of a span.                   *)

\* Padded and unpadded times of day, and one string the pattern refuses
SlotStrings ==
    {T(hh, mm) : hh \in {9, 10, 14, 23}, mm \in {0, 30}}
    \cup {U(h, mm) : h \in {2, 9}, mm \in {0, 30}}
    \cup {T(24, 0)}
SpanMoments == {At(0, 2, 0), At(0, 9, 0), At(0, 9, 30), At(0, 10, 0), At(0, 14, 30), At(0, 23, 30)}

SlotInit ==
    /\ tasks = [id \in TaskIds |-> NoTask]
    /\ overrides = [d \in Dates |-> NoOverride]
    /\ settings = <<>>
    /\ rules = {}
    /\ op = "idle"
    /\ call = NoCall
    /\ vres = NoValidation
    /\ sres = <<>>
    /\ batch = NoBatch
    /\ sessions = NoSessions
    /\ \E start_time \in SlotStrings, end_time \in SlotStrings, moment \in SpanMoments :
          probe = [slot |-> FocusSlot(start_time, end_time, "high"), moment |-> moment,
                   constructed |-> "no", compared |-> FALSE,
                   from_start |-> FALSE, to_end |-> FALSE]

\* FocusSlot(**data): the field patterns, then validate_time_range
ConstructSlot ==
    /\ probe.constructed = "no"
    /\ probe' = [probe EXCEPT
                    !.constructed = IF FocusSlotValid(probe.slot) THEN "accepted" ELSE "rejected"]
    /\ UNCHANGED <<tasks, overrides, settings, rules, op, call, vres, sres, batch, sessions>>

\* slot_start <= time_str and time_str <= slot_end of _is_within_focus_time,
\* for a slot the schema accepted
CompareSpan ==
    /\ probe.constructed = "accepted"
    /\ ~probe.compared
    /\ probe' = [probe EXCEPT
                    !.compared = TRUE,
                    !.from_start = StrLe(probe.slot.start_time, strftime_HM(probe.moment)),
                    !.to_end = StrLe(strftime_HM(probe.moment), probe.slot.end_time)]
    /\ UNCHANGED <<tasks, overrides, settings, rules, op, call, vres, sres, batch, sessions>>

SlotNext == ConstructSlot \/ CompareSpan

SlotSpec == SlotInit /\ [][SlotNext]_vars

-----------------------------------------------------------------------------
(* Two auto_schedule_tasks calls at the same time. Each call has its own     *)
(* session (get_db); the tasks it loaded stay in the session until the       *)
(* call returns, a slot assigned to a task is pending in the session until   *)
(* db.commit() writes it to the tasks table. No step takes a lock.           *)

ConcurrentInit ==
    /\ \E tt \in TaskTables \cup TiedTaskTables : tasks = tt
    /\ overrides = [d \in Dates |-> NoOverride]
    /\ settings = <<>>
    /\ rules = {}
    /\ op = "idle"
    /\ call = NoCall
    /\ vres = NoValidation
    /\ sres = <<>>
    /\ batch = NoBatch
    /\ probe = NoProbe
    /\ sessions = NoSessions

\* The tasks query of a call: the rows are loaded into the session
LoadTasks(c, task_ids, range_start, range_end) ==
    /\ sessions[c].phase = "new"
    /\ sessions' = [sessions EXCEPT ![c] =
                       [NoSession EXCEPT !.phase = "loaded",
                                         !.task_ids = task_ids,
                                         !.range_start = range_start,
                                         !.range_end = range_end,
                                         !.queue = LoadedTasks(tasks, task_ids)]]
    /\ UNCHANGED <<tasks, overrides, settings, rules, op, call, vres, sres, batch, probe>>

\* The next task of the loop: suggest, validate the best suggestion, and
\* assign the new slot to the loaded row
AssignSlot(c) ==
    /\ sessions[c].phase = "loaded"
    /\ Len(sessions[c].queue) > 0
    /\ \E suggestions \in {suggest_slots(Head(sessions[c].queue), sessions[c].range_start,
                                          sessions[c].range_end, "none",
                                          tasks, overrides, settings)} :
       LET id == Head(sessions[c].queue)
           rest == [sessions[c] EXCEPT !.queue = Tail(@)]
       IN  IF Len(suggestions) = 0
           THEN sessions' = [sessions EXCEPT ![c] =
                                [rest EXCEPT !.failed = Append(@,
                                    [task_id |-> id, reason |-> "No suitable slots found",
                                     errors |-> <<>>])]]
           ELSE
           \E validation \in {validate_placement(id, suggestions[1].start_time,
                                  suggestions[1].end_time, "none",
                                  tasks, overrides, settings, rules)} :
           IF ~validation.is_valid
           THEN sessions' = [sessions EXCEPT ![c] =
                                [rest EXCEPT !.failed = Append(@,
                                    [task_id |-> id, reason |-> "Validation failed",
                                     errors |-> validation.block_reasons])]]
           ELSE sessions' = [sessions EXCEPT ![c].phase = "dirty",
                                             ![c].pending = <<suggestions[1]>>]
    /\ UNCHANGED <<tasks, overrides, settings, rules, op, call, vres, sres, batch, probe>>

\* db.commit(): the pending slot replaces the row's scheduled_slots, whatever
\* another session has committed to the row in the meantime
CommitSlot(c) ==
    /\ sessions[c].phase = "dirty"
    /\ LET id == Head(sessions[c].queue)
           best_suggestion == sessions[c].pending[1]
       IN  /\ tasks' = [tasks EXCEPT ![id].scheduled_slots =
                            new_scheduled_slots(@, best_suggestion)]
           /\ sessions' = [sessions EXCEPT
                              ![c].phase = "loaded",
                              ![c].queue = Tail(@),
                              ![c].pending = <<>>,
                              ![c].scheduled = Append(@,
                                  [task_id |-> id,
                                   scheduled_time |-> isoformat(best_suggestion.start_time),
                                   score |-> best_suggestion.score])]
    /\ UNCHANGED <<overrides, settings, rules, op, call, vres, sres, batch, probe>>

\* The loop is over: the call returns its summary
ReturnSummary(c) ==
    /\ sessions[c].phase = "loaded"
    /\ Len(sessions[c].queue) = 0
    /\ sessions' = [sessions EXCEPT ![c].phase = "done"]
    /\ UNCHANGED <<tasks, overrides, settings, rules, op, call, vres, sres, batch, probe>>

ConcurrentNext ==
    \/ \E c \in Callers, ids \in TaskIdLists, a \in RangeBounds :
          LoadTasks(c, ids, a, At(MaxDay, 0, 0))
    \/ \E c \in Callers : AssignSlot(c)
    \/ \E c \in Callers : CommitSlot(c)
    \/ \E c \in Callers : ReturnSummary(c)

ConcurrentSpec == ConcurrentInit /\ [][ConcurrentNext]_vars

-----------------------------------------------------------------------------
(* Properties *)

\* Every ValidationResult the engine has handed out: the response of the
\* validate request, and the validations the auto-scheduler accepted
Returned == (IF op = "validate" THEN {vres} ELSE {}) \cup {batch.accepted[i] : i \in 1..Len(batch.accepted)}

TriggeredWarn(r) ==
    \E i \in 1..Len(r.rule_evaluations) :
        r.rule_evaluations[i].action = "warn" /\ r.rule_evaluations[i].triggered

\* The validate request answered in this state, and what it was asked about
Answered == op = "validate"
AskedTask == tasks[call.task_id]
AskedDay == DayContext(DayOf(call.start_time), overrides, settings)
\* The request went through every check: the task exists and nothing raised
Completed ==
    /\ Answered
    /\ vres.block_reasons # <<TaskNotFound>>
    /\ vres.block_reasons # <<ValidationError>>

Has(list, x) == \E i \in 1..Len(list) : list[i] = x

\* C1: in every returned result, is_valid is false exactly when the result is
\* BLOCKED, which is exactly when block_reasons is non-empty; with no block
\* reason the result is WARNED exactly when there is a warning or a triggered
\* WARN rule, and ALLOWED otherwise.
C1_ResultShape ==
    \A r \in Returned :
        /\ (~r.is_valid) <=> (r.validation_result = "blocked")
        /\ (r.validation_result = "blocked") <=> (Len(r.block_reasons) > 0)
        /\ Len(r.block_reasons) = 0 =>
              IF Len(r.warnings) > 0 \/ TriggeredWarn(r)
              THEN r.validation_result = "warned"
              ELSE r.validation_result = "allowed"

\* a result that is WARNED only because a WARN rule triggered
C1_Witness ==
    /\ Answered
    /\ vres.validation_result = "warned"
    /\ vres.is_valid
    /\ TriggeredWarn(vres)
    /\ Len(vres.block_reasons) = 0

\* The window lies inside one "available" slot of the day, as points in time
ChronologicallyAvailable(start_time, end_time, calendar_day) ==
    \E i \in 1..Len(calendar_day.availability_slots) :
        LET slot == calendar_day.availability_slots[i]
            day == DayOf(start_time)
        IN  /\ slot.status = "available"
            /\ strptime_HM(day, slot.start_time) <= start_time
            /\ end_time <= strptime_HM(day, slot.end_time)

\* C2: on a request whose checks all ran, a window that is not contained in
\* any "available" slot of the start
\* date's context, windows ending on a later calendar date included, is
\* BLOCKED with is_valid false; a day without availability slots never gives
\* the availability block reason.
C2_AvailabilityBlocks ==
    Completed =>
        /\ (/\ Len(AskedDay.availability_slots) > 0
            /\ ~ChronologicallyAvailable(call.start_time, call.end_time, AskedDay))
           => (~vres.is_valid /\ vres.validation_result = "blocked")
        /\ Len(AskedDay.availability_slots) = 0
           => ~Has(vres.block_reasons, AvailabilityReason)

\* Something in the try block of the answered request raised
SomethingRaised ==
    \/ call.fault = "task"
    \/ /\ AskedTask.exists
       /\ \/ call.fault \in {"context", "rules"}
          \/ ~AskedDay.ok
          \/ evaluate_rules(AskedTask, AskedDay, call.start_time, call.end_time,
                            rules).raised

\* C3: validate_placement never raises: an unknown task gives BLOCKED with
\* "Task not found", and any internal error gives BLOCKED with is_valid false
\* and a diagnostic block reason.
C3_NeverRaises ==
    Answered =>
        /\ ~vres.raised
        /\ (call.fault # "task" /\ ~AskedTask.exists) =>
              /\ ~vres.is_valid
              /\ vres.validation_result = "blocked"
              /\ vres.block_reasons = <<TaskNotFound>>
        /\ SomethingRaised =>
              /\ ~vres.is_valid
              /\ vres.validation_result = "blocked"
              /\ vres.block_reasons = <<ValidationError>>

\* a rule whose comparison raises, on a request the store served faultlessly
C3_Witness ==
    /\ Answered
    /\ call.fault = "none"
    /\ AskedTask.exists
    /\ AskedDay.ok
    /\ evaluate_rules(AskedTask, AskedDay, call.start_time, call.end_time, rules).raised
    /\ vres.block_reasons = <<ValidationError>>

\* Whether rule r holds for the answered request
Triggers(r) ==
    evaluate_rule_conditions(r, AskedTask, AskedDay, call.start_time, call.end_time) = "true"

EnvironmentFits ==
    \/ AskedTask.fitting_environments = {}
    \/ AskedDay.work_environment \in AskedTask.fitting_environments

\* C4: on a request whose checks all ran (task found, nothing raised), an
\* active BLOCK rule that triggers makes the result BLOCKED with a block
\* reason naming the rule, whether or not a built-in check has blocked already;
\* one that does not trigger adds no block reason, and a placement nothing
\* blocks stays valid.
C4_BlockRule ==
    Completed =>
        /\ \A r \in rules :
              (r.is_active /\ r.action = "block") =>
                 IF Triggers(r)
                 THEN /\ ~vres.is_valid
                      /\ vres.validation_result = "blocked"
                      /\ Has(vres.block_reasons, RuleBlock(r.name))
                 ELSE ~Has(vres.block_reasons, RuleBlock(r.name))
        /\ (/\ \A r \in rules : (r.is_active /\ r.action = "block") => ~Triggers(r)
            /\ EnvironmentFits
            /\ is_within_availability(call.start_time, call.end_time, AskedDay))
           => vres.is_valid

\* a BLOCK rule triggers on a placement the environment check blocks too
C4_Witness ==
    /\ Completed
    /\ \E r \in rules : r.is_active /\ r.action = "block" /\ Triggers(r)
                         /\ Has(vres.block_reasons, RuleBlock(r.name))
    /\ ~EnvironmentFits
    /\ Len(vres.block_reasons) >= 2

FocusCheckWarns ==
    /\ AskedTask.requires_focus
    /\ get_focus_level_for_timespan(call.start_time, call.end_time, AskedDay) # "high"

\* C5: on a request whose checks all ran, an active WARN rule that triggers
\* adds a warning naming the rule, and
\* with nothing blocking the result is valid and WARNED; one that does not
\* trigger adds no warning, and with no check warning and no rule triggering
\* the warnings list is empty.
C5_WarnRule ==
    Completed =>
        /\ \A r \in rules :
              (r.is_active /\ r.action = "warn") =>
                 IF Triggers(r)
                 THEN /\ Has(vres.warnings, RuleWarn(r.name))
                      /\ Len(vres.block_reasons) = 0 =>
                            (vres.is_valid /\ vres.validation_result = "warned")
                 ELSE ~Has(vres.warnings, RuleWarn(r.name))
        /\ (~FocusCheckWarns /\ \A r \in rules : r.is_active => ~Triggers(r))
           => vres.warnings = <<>>

\* a WARN rule triggers and nothing blocks
C5_Witness ==
    /\ Completed
    /\ \E r \in rules : r.is_active /\ r.action = "warn" /\ Triggers(r)
                         /\ Has(vres.warnings, RuleWarn(r.name))
    /\ vres.is_valid
    /\ vres.validation_result = "warned"

ConditionHolds(c) ==
    evaluate_condition(c, AskedTask, AskedDay, call.start_time, call.end_time) = "true"

\* C6: on a request whose checks all ran, every active rule is evaluated, and
\* a rule is reported as triggered
\* exactly when its condition list is non-empty and every condition in it
\* holds.
C6_RuleTriggers ==
    Completed =>
        /\ Len(vres.rule_evaluations) = Cardinality({r \in rules : r.is_active})
        /\ \A r \in rules :
              r.is_active =>
                 \E i \in 1..Len(vres.rule_evaluations) :
                    /\ vres.rule_evaluations[i].rule_name = r.name
                    /\ vres.rule_evaluations[i].triggered <=>
                          /\ Len(r.conditions) > 0
                          /\ \A j \in 1..Len(r.conditions) : ConditionHolds(r.conditions[j])

\* a rule whose first condition holds and whose second does not, next to a
\* rule without conditions
C6_Witness ==
    /\ Completed
    /\ \E r \in rules :
          /\ r.is_active
          /\ Len(r.conditions) = 2
          /\ ConditionHolds(r.conditions[1])
          /\ ~ConditionHolds(r.conditions[2])
          /\ \E i \in 1..Len(vres.rule_evaluations) :
                /\ vres.rule_evaluations[i].rule_name = r.name
                /\ ~vres.rule_evaluations[i].triggered
    /\ \E r \in rules : r.is_active /\ Len(r.conditions) = 0

\* C7: on a request whose checks all ran, a task with fitting environments
\* placed on a day whose resolved work
\* environment is not among them is BLOCKED, with a block reason naming the
\* required environments and the actual one; a task without fitting
\* environments never gets an environment block reason.
C7_EnvironmentBlocks ==
    Completed =>
        /\ ~EnvironmentFits =>
              /\ ~vres.is_valid
              /\ vres.validation_result = "blocked"
              /\ Has(vres.block_reasons,
                     EnvironmentReason(AskedTask.fitting_environments,
                                       AskedDay.work_environment))
        /\ AskedTask.fitting_environments = {} =>
              \A i \in 1..Len(vres.block_reasons) :
                 vres.block_reasons[i].kind # "Task requires environments"

\* a home task on a day a recurring setting makes an office day
C7_Witness ==
    /\ Completed
    /\ Len(settings) > 0
    /\ Has(vres.block_reasons, EnvironmentReason({"home"}, "office"))

\* C8: on a request whose checks all ran, for a task that requires focus, a
\* window whose focus level is not
\* "high" gives a warning and never a block reason (valid and WARNED when
\* nothing blocks); a window whose level is "high", with nothing else warning
\* or blocking, is ALLOWED with no warnings.
C8_FocusWarns ==
    (Completed /\ AskedTask.requires_focus) =>
        /\ \A i \in 1..Len(vres.block_reasons) :
              vres.block_reasons[i].kind # "Task requires high focus"
        /\ FocusCheckWarns =>
              /\ Has(vres.warnings, FocusWarning)
              /\ Len(vres.block_reasons) = 0 =>
                    (vres.is_valid /\ vres.validation_result = "warned")
        /\ (/\ ~FocusCheckWarns
            /\ EnvironmentFits
            /\ is_within_availability(call.start_time, call.end_time, AskedDay)
            /\ \A r \in rules : r.is_active => ~Triggers(r))
           => (vres.validation_result = "allowed" /\ vres.warnings = <<>>)

\* a window inside a focus slot of a level other than "high"
C8_Witness ==
    /\ Completed
    /\ AskedTask.requires_focus
    /\ get_focus_level_for_timespan(call.start_time, call.end_time, AskedDay)
          \notin {"high", NoLevel}
    /\ vres.validation_result = "warned"
    /\ Has(vres.warnings, FocusWarning)

\* The candidate windows of a date for a task: its focus slots when the task
\* requires focus, its "available" slots, and 09:00-17:00 on a day without
\* availability slots
Windows(task, date) ==
    LET ctx == DayContext(date, overrides, settings)
        fs == ctx.focus_slots
        av == ctx.availability_slots
    IN  {<<fs[i].start_time, fs[i].end_time>> : i \in {k \in 1..Len(fs) : task.requires_focus}}
        \cup {<<av[i].start_time, av[i].end_time>> :
                 i \in {k \in 1..Len(av) : av[k].status = "available"}}
        \cup (IF Len(av) = 0 THEN {<<T(9, 0), T(17, 0)>>} ELSE {})

\* C9: suggest_slots returns at most 5 suggestions in non-increasing order of
\* score; each spans exactly the task's estimated duration and lies inside
\* the candidate window that generated it, so a window shorter than the
\* duration yields none.
C9_Suggestions ==
    op = "suggest" =>
        /\ Len(sres) <= MaxSuggestions
        /\ \A i, j \in 1..Len(sres) : i < j => sres[i].score >= sres[j].score
        /\ \A i \in 1..Len(sres) :
              LET x == sres[i]
                  day == DayOf(x.start_time)
                  from == strptime_HM(day, x.reason.slot_start)
                  to == strptime_HM(day, x.reason.slot_end)
              IN  /\ x.end_time = x.start_time + AskedTask.estimated_duration_minutes
                  /\ <<x.reason.slot_start, x.reason.slot_end>> \in Windows(AskedTask, day)
                  /\ from <= x.start_time
                  /\ x.end_time <= to
                  /\ to - from >= AskedTask.estimated_duration_minutes

\* more candidates than the cut keeps, of different scores, on a range
\* holding a window shorter than the task
C9_Witness ==
    /\ op = "suggest"
    /\ Len(sres) = MaxSuggestions
    /\ sres[1].score > sres[MaxSuggestions].score
    /\ \E d \in Dates :
          /\ call.start_time <= At(d, 0, 0) /\ At(d, 0, 0) <= call.end_time
          /\ \E w \in Windows(AskedTask, d) :
                strptime_HM(d, w[2]) - strptime_HM(d, w[1])
                   < AskedTask.estimated_duration_minutes

\* C10: for every task the auto-scheduler reports as scheduled, the top
\* suggestion for the task was accepted by validate_placement (valid, no
\* block reasons), and the task's scheduled slots are exactly one slot with
\* that suggestion's start and end, whatever slots the task had before.
C10_ScheduledRoundTrip ==
    \A i \in 1..Len(batch.scheduled) :
        LET id == batch.scheduled[i].task_id
            suggestions == suggest_slots(id, batch.range_start, batch.range_end, "none",
                                         tasks, overrides, settings)
            top == suggestions[1]
            v == validate_placement(id, top.start_time, top.end_time, "none",
                                    tasks, overrides, settings, rules)
            slots == tasks[id].scheduled_slots
        IN  /\ Len(suggestions) > 0
            /\ batch.best[i] = top
            /\ batch.accepted[i] = v
            /\ v.is_valid
            /\ Len(v.block_reasons) = 0
            /\ batch.scheduled[i].scheduled_time = isoformat(top.start_time)
            /\ Len(slots) = 1
            /\ slots[1].start_time = isoformat(top.start_time)
            /\ slots[1].end_time = isoformat(top.end_time)

\* a finished batch that scheduled task 1, which had two slots before
C10_Witness ==
    /\ batch.phase = "done"
    /\ \E i \in 1..Len(batch.scheduled) : batch.scheduled[i].task_id = 1
    /\ \E t \in FirstTasks :
          /\ Len(t.scheduled_slots) = 2
          /\ [tasks[1] EXCEPT !.scheduled_slots = t.scheduled_slots] = t
    /\ Len(tasks[1].scheduled_slots) = 1

\* a is asked to come strictly before b: higher priority, or the same
\* priority and a deadline where b has none or a later one
ComesFirst(a, b) ==
    LET rank == [p \in PriorityEnum |->
                    CASE p = "urgent" -> 4 [] p = "high" -> 3
                      [] p = "medium" -> 2 [] p = "low" -> 1]
    IN  \/ rank[tasks[a].priority] > rank[tasks[b].priority]
        \/ /\ tasks[a].priority = tasks[b].priority
           /\ tasks[a].deadline # NoDeadline
           /\ \/ tasks[b].deadline = NoDeadline
              \/ tasks[a].deadline < tasks[b].deadline

\* The tasks of the batch that have been processed so far
Processed ==
    {batch.scheduled[i].task_id : i \in 1..Len(batch.scheduled)}
    \cup {batch.failed[i].task_id : i \in 1..Len(batch.failed)}

\* C11: while a batch runs, no task still waiting should have come before a
\* task already processed or before a task ahead of it in the queue, in the
\* order priority descending (urgent, high, medium, low), then earliest
\* deadline, undated last; and the slot of every task scheduled so far is in
\* the store when the next task's suggestions are computed.
C11_ProcessingOrder ==
    batch.phase = "running" =>
        /\ \A i, j \in 1..Len(batch.queue) :
              i < j => ~ComesFirst(batch.queue[j], batch.queue[i])
        /\ \A p \in Processed : \A i \in 1..Len(batch.queue) :
              ~ComesFirst(batch.queue[i], p)
        /\ \A i \in 1..Len(batch.scheduled) :
              LET slots == tasks[batch.scheduled[i].task_id].scheduled_slots
              IN  /\ Len(slots) = 1
                  /\ slots[1].start_time = batch.scheduled[i].scheduled_time

\* task 2, of the same priority as task 1 but with the earlier deadline, has
\* been scheduled and committed while task 1 still waits
C11_Witness ==
    /\ batch.phase = "running"
    /\ batch.queue = <<1>>
    /\ Len(batch.scheduled) = 1
    /\ batch.scheduled[1].task_id = 2
    /\ tasks[1].priority = tasks[2].priority
    /\ tasks[1].deadline # NoDeadline
    /\ tasks[2].deadline < tasks[1].deadline
    /\ Len(tasks[2].scheduled_slots) = 1

\* The tasks the returned summary lists as scheduled
ReportedScheduled == {batch.scheduled[i].task_id : i \in 1..Len(batch.scheduled)}

\* C12: in every outcome of a batch, a failing commit included, the tasks the
\* summary lists as scheduled are exactly the tasks whose scheduled slots the
\* call wrote and committed.
C12_SummaryKeepsCommitted ==
    batch.phase = "done" => ReportedScheduled = batch.written

\* C13: the returned summary has total_tasks equal to the number of requested
\* ids and success_rate equal to scheduled entries over total_tasks (0 for an
\* empty batch, never above 1), and every requested id is accounted for in
\* scheduled or failed, so that |scheduled| + |failed| = total_tasks, also for
\* ids that do not exist or are repeated.
C13_SummaryAccounting ==
    batch.phase = "done" =>
        /\ total_tasks(batch) = Len(batch.task_ids)
        /\ success_rate(batch)[1] * total_tasks(batch)
              = Len(batch.scheduled) * success_rate(batch)[2]
        /\ Len(batch.task_ids) = 0 => success_rate(batch)[1] = 0
        /\ success_rate(batch)[1] <= success_rate(batch)[2]
        /\ \A k \in 1..Len(batch.task_ids) : batch.task_ids[k] \in Processed
        /\ Len(batch.scheduled) + Len(batch.failed) = total_tasks(batch)

\* The active rows of the settings table whose recurrence pattern matches a date
MatchingSettings(date) ==
    {i \in 1..Len(settings) :
        /\ settings[i].is_active
        /\ PatternParses(settings[i].recurrence_pattern)
        /\ is_date_in_pattern(date, settings[i].recurrence_pattern)}

\* The day context of the date a validate or suggest request resolved first
ResolvedDay == DayOf(call.start_time)

\* C14: for every date whose day context resolves, the source is
\* daily_override when an override row exists for the date, whether or not a
\* setting matches too; otherwise user_settings when at least one active
\* setting's pattern matches the date; otherwise default. Inactive and
\* non-matching settings leave the source alone.
C14_Provenance ==
    \A d \in Dates :
        LET ctx == DayContext(d, overrides, settings)
        IN  ctx.ok =>
               ctx.source = IF overrides[d].present THEN "daily_override"
                            ELSE IF MatchingSettings(d) # {} THEN "user_settings"
                            ELSE "default"

\* a validation resolved the context of a date that has an override row and a
\* matching setting
C14_Witness ==
    /\ op = "validate"
    /\ call.fault = "none"
    /\ overrides[ResolvedDay].present
    /\ MatchingSettings(ResolvedDay) # {}
    /\ AskedDay.ok
    /\ AskedDay.source = "daily_override"

\* The setting types with a matching row on a date, and the value the last
\* matching row of a type holds
MatchingTypes(date) == {settings[i].setting_type : i \in MatchingSettings(date)}
LastMatching(date, type) ==
    LET S == {i \in MatchingSettings(date) : settings[i].setting_type = type}
    IN  settings[CHOOSE i \in S : \A j \in S : j <= i].value.payload

SystemDefaults ==
    [work_environment |-> "home",
     focus_slots |-> <<[start_time |-> T(9, 0), end_time |-> T(11, 0), focus_level |-> "high"],
                       [start_time |-> T(14, 0), end_time |-> T(16, 0), focus_level |-> "medium"]>>,
     availability_slots |-> <<[start_time |-> T(9, 0), end_time |-> T(17, 0),
                               status |-> "available"]>>]

Fields == {"work_environment", "focus_slots", "availability_slots"}

\* C15: for every date whose day context resolves, an override row gives the
\* three fields exactly its own values, empty lists included; and with no
\* override row and matching settings of one field only, that field is exactly
\* the setting's value, with no default slot appended, while the other two
\* fields are the system defaults.
C15_WholeFieldReplacement ==
    \A d \in Dates :
        LET ctx == DayContext(d, overrides, settings)
        IN  ctx.ok =>
               /\ overrides[d].present =>
                     /\ ctx.work_environment = overrides[d].work_environment
                     /\ ctx.focus_slots = overrides[d].focus_slots
                     /\ ctx.availability_slots = overrides[d].availability_slots
               /\ (~overrides[d].present /\ Cardinality(MatchingTypes(d)) = 1) =>
                     \A f \in Fields :
                         ctx[f] = IF f \in MatchingTypes(d) THEN LastMatching(d, f)
                                  ELSE SystemDefaults[f]

\* a validation resolved a date whose override row has empty slot lists, in a
\* store where another date is matched by a single work_environment setting
C15_Witness ==
    /\ op = "validate"
    /\ call.fault = "none"
    /\ overrides[ResolvedDay].present
    /\ overrides[ResolvedDay].focus_slots = <<>>
    /\ AskedDay.ok
    /\ AskedDay.focus_slots = <<>>
    /\ AskedDay.availability_slots = <<>>
    /\ \E d \in Dates :
          /\ ~overrides[d].present
          /\ MatchingTypes(d) = {"work_environment"}
          /\ DayContext(d, overrides, settings).work_environment = "office"
          /\ DayContext(d, overrides, settings).focus_slots = SystemDefaults.focus_slots

\* What the recurrence rules ask of the probed date and pattern
InPattern ==
    LET d == probe.date
        P == probe.pattern
        days == d - P.start_date
    IN  /\ d >= P.start_date
        /\ P.end_date = NoDate \/ d <= P.end_date
        /\ CASE P.pattern_type = "daily" -> days % P.interval = 0
             [] P.pattern_type = "weekly" ->
                    /\ weekday(d) \in P.days_of_week
                    /\ (days \div 7) % P.interval = 0
             [] P.pattern_type = "monthly" ->
                    (MonthIndex(d) - MonthIndex(P.start_date)) % P.interval = 0
             [] P.pattern_type = "custom" -> weekday(d) \in P.days_of_week

ValueParses(row) ==
    /\ row.value.wrapped
    /\ CASE row.setting_type = "work_environment" -> row.value.payload \in WorkEnvironmentEnum
         [] row.setting_type = "focus_slots" ->
                \A i \in 1..Len(row.value.payload) : FocusSlotValid(row.value.payload[i])
         [] row.setting_type = "availability_slots" ->
                \A i \in 1..Len(row.value.payload) : AvailabilitySlotValid(row.value.payload[i])
WellFormed(rows) ==
    SelectSeq(rows, LAMBDA row : PatternParses(row.recurrence_pattern) /\ ValueParses(row))

\* C17: a stored setting whose recurrence pattern or slot value does not parse
\* is skipped, that record alone: a validation and a suggestion request answer
\* what they would answer if the record were not stored, so the validation is
\* not the internal-error block and the suggestions of the range are not lost.
C17_MalformedSkipped ==
    /\ (op = "validate" /\ call.fault = "none") =>
          vres = validate_placement(call.task_id, call.start_time, call.end_time, "none",
                                    tasks, overrides, WellFormed(settings), rules)
    /\ (op = "suggest" /\ call.fault = "none") =>
          sres = suggest_slots(call.task_id, call.start_time, call.end_time, "none",
                               tasks, overrides, WellFormed(settings))

\* C18: no step of validate_placement or suggest_slots changes a task, and no
\* step at all changes a calendar-day record, a setting or a rule; a step of
\* auto_schedule_tasks changes nothing of a task but its scheduled slots, and
\* when the summary is returned every task whose slots the call changed is
\* listed in it as scheduled, so that failed tasks and tasks outside the batch
\* are as they were.
C18_Frame ==
    [][ /\ overrides' = overrides
        /\ settings' = settings
        /\ rules' = rules
        /\ op' \in {"validate", "suggest"} => tasks' = tasks
        /\ \A id \in TaskIds :
              tasks'[id] # tasks[id] =>
                 /\ op = "auto"
                 /\ [tasks'[id] EXCEPT !.scheduled_slots = tasks[id].scheduled_slots] = tasks[id]
                 /\ id \in batch'.written
        /\ batch'.phase = "done" =>
              \A id \in batch'.written :
                 \E i \in 1..Len(batch'.scheduled) : batch'.scheduled[i].task_id = id
      ]_vars

\* The tasks table with no task scheduled anywhere
Unscheduled == [id \in TaskIds |-> [tasks[id] EXCEPT !.scheduled_slots = <<>>]]

\* C19: the suggestions for a task are what they would be if no task had any
\* scheduled slot, both those a suggestion request returned and those the
\* batch is about to compute for the next task in its queue. (That two tasks
\* of one batch can then be scheduled over the same time is the witness.)
C19_SuggestionsIgnoreSlots ==
    /\ (op = "suggest" /\ call.fault = "none") =>
          sres = suggest_slots(call.task_id, call.start_time, call.end_time, "none",
                               Unscheduled, overrides, settings)
    /\ (batch.phase = "running" /\ Len(batch.queue) > 0) =>
          suggest_slots(Head(batch.queue), batch.range_start, batch.range_end, "none",
                        tasks, overrides, settings)
             = suggest_slots(Head(batch.queue), batch.range_start, batch.range_end, "none",
                             Unscheduled, overrides, settings)

\* a finished batch reports two distinct tasks as scheduled whose spans overlap
C19_Witness ==
    /\ batch.phase = "done"
    /\ Len(batch.scheduled) = 2
    /\ batch.scheduled[1].task_id # batch.scheduled[2].task_id
    /\ batch.best[1].start_time < batch.best[2].end_time
    /\ batch.best[2].start_time < batch.best[1].end_time
    /\ \A i \in 1..2 :
          tasks[batch.scheduled[i].task_id].scheduled_slots[1].start_time
             = batch.scheduled[i].scheduled_time

\* Caller c has loaded the task and has not yet committed it or given it up
InFlight(c, task_id) ==
    /\ sessions[c].phase \in {"loaded", "dirty"}
    /\ \E i \in 1..Len(sessions[c].queue) : sessions[c].queue[i] = task_id

\* C20: of two auto_schedule_tasks calls that run at the same time and share a
\* task T, at most one is between loading T and committing T's scheduled
\* slots at any moment.
C20_NoConcurrentMutation ==
    \A task_id \in TaskIds : \A c, d \in Callers :
        (c # d) => ~(InFlight(c, task_id) /\ InFlight(d, task_id))

\* The bonuses the scored task draws from its priority and from the day's
\* environment, in tenths
PriorityBonus ==
    CASE probe.task.priority = "urgent" -> 2
      [] probe.task.priority = "high" -> 1
      [] OTHER -> 0
EnvironmentBonus ==
    IF /\ probe.task.fitting_environments # {}
       /\ probe.calendar_day.work_environment \in probe.task.fitting_environments
    THEN 2 ELSE 0

BatchSuggestions(id) ==
    suggest_slots(id, batch.range_start, batch.range_end, "none", tasks, overrides, settings)
ValidationOf(id, suggestion) ==
    validate_placement(id, suggestion.start_time, suggestion.end_time, "none",
                       tasks, overrides, settings, rules)
FailedEntries == {i \in 1..Len(batch.failed) : batch.failed[i].task_id # 0}

\* C22: a task of the batch is recorded once; it is recorded as failed with
\* "No suitable slots found" exactly when it has no suggestion, as failed with
\* "Validation failed" and the validator's block reasons exactly when its
\* top-scored suggestion is invalid, and as scheduled at its top-scored
\* suggestion otherwise; and the slot committed for a task is still the
\* task's slot at every later moment of the batch.
C22_SinglePass ==
    /\ \A i \in FailedEntries :
          LET f == batch.failed[i]
              sg == BatchSuggestions(f.task_id)
          IN  /\ Len(sg) = 0 => f.reason = "No suitable slots found"
              /\ Len(sg) > 0 =>
                    /\ f.reason = "Validation failed"
                    /\ ~ValidationOf(f.task_id, sg[1]).is_valid
                    /\ f.errors = ValidationOf(f.task_id, sg[1]).block_reasons
              /\ \A j \in FailedEntries : batch.failed[j].task_id = f.task_id => j = i
              /\ f.task_id \notin ReportedScheduled
    /\ \A i \in 1..Len(batch.scheduled) :
          LET e == batch.scheduled[i]
              sg == BatchSuggestions(e.task_id)
          IN  /\ Len(sg) > 0
              /\ ValidationOf(e.task_id, sg[1]).is_valid
              /\ e.scheduled_time = isoformat(sg[1].start_time)
              /\ tasks[e.task_id].scheduled_slots = new_scheduled_slots(<<>>, sg[1])
              /\ \A j \in 1..Len(batch.scheduled) : batch.scheduled[j].task_id = e.task_id => j = i

\* a task failed validation on its top-scored suggestion although a
\* lower-ranked suggestion of its list would have been valid
C22_Witness ==
    /\ batch.phase = "done"
    /\ \E i \in FailedEntries :
          LET f == batch.failed[i]
              sg == BatchSuggestions(f.task_id)
          IN  /\ f.reason = "Validation failed"
              /\ Len(f.errors) > 0
              /\ \E k \in 2..Len(sg) : ValidationOf(f.task_id, sg[k]).is_valid

\* C23: every slot a suggestion request returned passes the validator's
\* environment and availability checks: validating the suggested span for
\* the same task gives no environment-mismatch block reason and no
\* outside-available-hours block reason, whichever list the candidate came
\* from.
C23_SuggestionsPassChecks ==
    (op = "suggest" /\ call.fault = "none") =>
        \A i \in 1..Len(sres) :
            LET reasons == validate_placement(call.task_id, sres[i].start_time,
                               sres[i].end_time, "none",
                               tasks, overrides, settings, {}).block_reasons
            IN  \A k \in 1..Len(reasons) :
                    /\ reasons[k].kind # AvailabilityReason.kind
                    /\ reasons[k].kind # EnvironmentReason({}, "home").kind

\* C24: for a task that requires focus, the score of a returned suggestion is
\* the score of its own span [start, start + duration): it holds the focus
\* bonus exactly when that span lies within a focus slot of the day, whether
\* the candidate came from the focus slots, the availability slots or the
\* default hours.
C24_FocusBonusOfSpan ==
    (op = "suggest" /\ call.fault = "none" /\ AskedTask.requires_focus) =>
        \A i \in 1..Len(sres) :
            sres[i].score =
                calculate_slot_score(AskedTask,
                    DayContext(DayOf(sres[i].start_time), overrides, settings),
                    sres[i].start_time, sres[i].end_time)

\* The deadline bonus the scored candidate is to get, in tenths: by the time
\* from the candidate's start to the task's deadline
DeadlineBonus ==
    LET until == probe.task.deadline - probe.start_time
    IN  IF probe.task.deadline = NoDeadline THEN 0
        ELSE IF until < 0 THEN 0
        ELSE IF until <= MinutesPerDay THEN 2
        ELSE IF until <= 3 * MinutesPerDay THEN 1
        ELSE 0

\* C25: the score of a candidate is that of the same task without deadline
\* plus the deadline bonus, up to the cap: 0.2 when the task has a deadline
\* and the start is at most one day before it, 0.1 when the start is more
\* than one and at most three days before it, nothing otherwise (no deadline,
\* more than three days before it, or after it).
C25_DeadlineBonus ==
    probe.calls = 1 =>
        LET undated == calculate_slot_score([probe.task EXCEPT !.deadline = NoDeadline],
                           probe.calendar_day, probe.start_time, probe.end_time)
        IN  probe.score = IF undated + DeadlineBonus > 10 THEN 10
                          ELSE undated + DeadlineBonus

\* The minute of the day a time-of-day string names
MinuteOfDay(s) == strptime_HM(0, s)

\* The focus slots of the probed day that the probed span overlaps, by the
\* times of day of its start and its end
OverlappedSlots ==
    {i \in 1..Len(probe.calendar_day.focus_slots) :
        /\ MinOf(probe.start_time) < MinuteOfDay(probe.calendar_day.focus_slots[i].end_time)
        /\ MinOf(probe.end_time) > MinuteOfDay(probe.calendar_day.focus_slots[i].start_time)}

\* C26: a time_slot condition on is_focus_time with a boolean expected value
\* holds exactly when that boolean is the truth of "the span overlaps some
\* focus slot of the day", a partial overlap included.
C26_FocusTimeIsOverlap ==
    probe.calls = 1 =>
        \A i \in 1..Len(probe.conditions) :
            LET c == probe.conditions[i]
            IN  (c.source = "time_slot" /\ c.field = "is_focus_time"
                   /\ c.operator = "equals" /\ c.value.t = "bool") =>
                    probe.results[i] = Tri((OverlappedSlots # {}) <=> (c.value.n = 1))

\* C27: for strings the slot schema's pattern admits, the string comparisons
\* agree with the order of the times: a slot is accepted exactly when its end
\* is later than its start, and an accepted slot's strings compare with a
\* formatted span time as the times themselves do.
C27_StringOrderIsTimeOrder ==
    /\ (probe.constructed # "no" /\ TimePatternOk(probe.slot.start_time) /\ TimePatternOk(probe.slot.end_time)) =>
          (probe.constructed = "accepted" <=> MinuteOfDay(probe.slot.end_time) > MinuteOfDay(probe.slot.start_time))
    /\ probe.compared =>
          /\ probe.from_start <=> MinuteOfDay(probe.slot.start_time) <= MinOf(probe.moment)
          /\ probe.to_end <=> MinOf(probe.moment) <= MinuteOfDay(probe.slot.end_time)

\* The evaluations of the last validation that triggered with SUGGEST_ALTERNATIVE
TriggeredSuggesting ==
    {i \in 1..Len(vres.rule_evaluations) :
        vres.rule_evaluations[i].triggered /\ vres.rule_evaluations[i].action = "suggest_alternative"}
\* What the suggester returns for the validated task over the seven days from start
Alternatives ==
    suggest_slots(call.task_id, call.start_time, call.start_time + SuggestWindowDays * MinutesPerDay, "none", tasks, overrides, settings)
RECURSIVE Repeated(_, _)
Repeated(seq, k) == IF k = 0 THEN <<>> ELSE seq \o Repeated(seq, k - 1)

\* C28: a validation result has suggestions only if a triggered rule has
\* action SUGGEST_ALTERNATIVE; every such rule appends the suggester's results
\* for the same task and adds a warning naming the rule, so that the result is
\* at least WARNED; the not-found and internal-error results and results
\* where no such rule triggered carry no suggestions.
C28_SuggestionsFromRules ==
    op = "validate" =>
        /\ vres.suggestions = Repeated(Alternatives, Cardinality(TriggeredSuggesting))
        /\ \A i \in TriggeredSuggesting :
              /\ \E w \in 1..Len(vres.warnings) : vres.warnings[w] = RuleSuggests(vres.rule_evaluations[i].rule_name)
              /\ vres.validation_result \in {"warned", "blocked"}
        /\ (TriggeredSuggesting = {} \/ TaskNotFound \in {vres.block_reasons[b] : b \in 1..Len(vres.block_reasons)} \/ ValidationError \in {vres.block_reasons[b] : b \in 1..Len(vres.block_reasons)}) =>
              vres.suggestions = <<>>

\* The first overlapped slot that holds the start of the probed span, the
\* first overlapped slot otherwise
StartHolders ==
    {i \in OverlappedSlots :
        /\ MinuteOfDay(probe.calendar_day.focus_slots[i].start_time) <= MinOf(probe.start_time)
        /\ MinOf(probe.start_time) < MinuteOfDay(probe.calendar_day.focus_slots[i].end_time)}
FirstOf(S) == CHOOSE i \in S : \A j \in S : i <= j
ResolvedLevel ==
    IF OverlappedSlots = {} THEN NoLevel
    ELSE IF StartHolders # {} THEN probe.calendar_day.focus_slots[FirstOf(StartHolders)].focus_level
    ELSE probe.calendar_day.focus_slots[FirstOf(OverlappedSlots)].focus_level

\* C29: the focus level of a span is the level of the first slot in list
\* order that overlaps the span and holds its start, even after an earlier
\* slot that only overlaps; failing that the level of the first overlapping
\* slot; and None when no slot overlaps the span.
C29_FocusLevelOfSpan ==
    probe.level # NoLevelYet => probe.level = ResolvedLevel
\* a resolved span whose first overlapping slot does not hold its start while a later one does
C29_Witness ==
    /\ probe.level # NoLevelYet
    /\ StartHolders # {}
    /\ FirstOf(OverlappedSlots) \notin StartHolders
    /\ probe.level = probe.calendar_day.focus_slots[FirstOf(StartHolders)].focus_level
    /\ probe.level # probe.calendar_day.focus_slots[FirstOf(OverlappedSlots)].focus_level

\* The fields and operators the engine names
RecognizedFields(source) ==
    IF source = "task_property" THEN {"priority", "requires_focus", "estimated_duration_minutes", "category_id"}
    ELSE IF source = "calendar_day" THEN {"work_environment", "has_focus_slots"}
    ELSE {"is_focus_time", "is_available", "hour_of_day"}
RecognizedOperators == {"equals", "not_equals", "greater_than", "less_than", "in", "not_in"}
Unrecognized(c) == c.field \notin RecognizedFields(c.source) \/ c.operator \notin RecognizedOperators
AllUnrecognized == \A i \in 1..Len(probe.conditions) : Unrecognized(probe.conditions[i])

\* C30: a condition whose field or operator the engine does not know is true,
\* for each of the three sources; a rule made only of such conditions triggers
\* for every task, day and span, and validation with that rule does not end
\* in the internal-error result.
C30_UnknownIsTrue ==
    /\ probe.calls = 1 =>
          /\ \A i \in 1..Len(probe.conditions) :
                Unrecognized(probe.conditions[i]) => probe.results[i] = "true"
          /\ AllUnrecognized => probe.triggered = "true"
    /\ (probe.validation # NoValidation /\ AllUnrecognized) =>
          /\ \A b \in 1..Len(probe.validation.block_reasons) : probe.validation.block_reasons[b] # ValidationError
          /\ \E e \in 1..Len(probe.validation.rule_evaluations) :
                /\ probe.validation.rule_evaluations[e].rule_name = "probed"
                /\ probe.validation.rule_evaluations[e].triggered
\* a validated rule of two conditions, one with an unknown operator on a known
\* field and one with an unknown field, that triggered and blocked
C30_Witness ==
    /\ probe.calls = 1
    /\ probe.validation # NoValidation
    /\ Len(probe.conditions) = 2
    /\ probe.conditions[1].field \in RecognizedFields(probe.conditions[1].source)
    /\ probe.conditions[1].operator \notin RecognizedOperators
    /\ probe.conditions[2].field \notin RecognizedFields(probe.conditions[2].source)
    /\ probe.triggered = "true"
    /\ \E b \in 1..Len(probe.validation.block_reasons) : probe.validation.block_reasons[b] = RuleBlock("probed")

====
